---- MODULE Spec2Model ----
(***************************************************************************)
(* Habit tracker: the Habit entity (tracking_classes.py) and the period    *)
(* bucketing / streak / success-rate analysis (analysis_functions.py).     *)
(*                                                                         *)
(* Time is counted in ticks since 1999-01-01 00:00 (the default analysis   *)
(* start of the code); a calendar day has TicksPerDay ticks, so a datetime *)
(* is an integer and a timedelta is a number of ticks.                     *)
(***************************************************************************)
EXTENDS Integers, Sequences, FiniteSets

VARIABLES
    now,     \* datetime.now(): the system clock
    habit,   \* the Habit instance: its attributes and its checkoff_list
             \* (in SpecExample: the habit_list, a sequence of Habit instances)
    pc,      \* "idle", or the name of the analysis function that has just returned
    arg,     \* the arguments of that call
    frame,   \* the local variables of that call when it returned
    user,    \* the class User: its attributes user_name and habit_list
    db       \* the sqlite3 database: its tables User, Habit and Checkoff

vars == <<now, habit, pc, arg, frame, user, db>>

----------------------------------------------------------------------------
(* Bounds of the model                                                     *)

TicksPerDay == 2

MaxPeriods == 3

MaxCheckoffs == 3

MaxLength == 3

(* Program constants                                                       *)

DaysPerWeek == 7

DaysPerMonth == 30

DefaultStartDate == 0

----------------------------------------------------------------------------
(* datetime helpers                                                        *)

Max(a, b) == IF a >= b THEN a ELSE b

\* datetime.combine(d, time.min): the time component is zeroed.
CombineTimeMin(d) == d - (d % TicksPerDay)

\* list.append(x) without the list.sort() after it.
SortedInsert_NotSorted(list, x) == Append(list, x)

\* list.sort() after list.append(x), for a list that is already ascending.
RECURSIVE SortedInsert(_, _)
SortedInsert(list, x) ==
    IF list = <<>> THEN <<x>>
    ELSE IF x < Head(list) THEN <<x>> \o list
    ELSE <<Head(list)>> \o SortedInsert(Tail(list), x)

\* list.remove(x): drops the first element equal to x.
RECURSIVE ListRemove(_, _)
ListRemove(list, x) ==
    IF list = <<>> THEN <<>>
    ELSE IF Head(list) = x THEN Tail(list)
    ELSE <<Head(list)>> \o ListRemove(Tail(list), x)

Contains(list, x) == \E i \in 1..Len(list) : list[i] = x

\* The class User as it is defined: no user name, no habits.
NoUser == [user_name |-> "", habit_list |-> <<>>]

\* The database after setup_database: the three tables without rows.  The
\* table User maps a user_name (its primary key) to the password it stores.
NoDatabase == [User |-> [user_name \in {} |-> ""], Habit |-> {}, Checkoff |-> {}]

----------------------------------------------------------------------------
(* Habit (tracking_classes.py)                                             *)

\* Habit.__init__: the attributes of a new habit; checkoff_list starts empty.
NewHabit(habit_name, period_unit, period_length, required_checkoffs, habit_description, create_datetime) ==
    [habit_name         |-> habit_name,
     habit_description  |-> habit_description,
     period_unit        |-> period_unit,
     period_length      |-> period_length,
     required_checkoffs |-> required_checkoffs,
     create_datetime    |-> create_datetime,
     checkoff_list      |-> <<>>]

\* list_checkoffs that ignores start.
list_checkoffs_StartIgnored(h, start, end) ==
    IF Len(h.checkoff_list) = 0 THEN <<>>
    ELSE SelectSeq(h.checkoff_list, LAMBDA checkoff : end = <<>> \/ checkoff <= end[1])

\* Habit.list_checkoffs: start and end are optional, <<>> standing for None
\* (then datetime.min / datetime.max, which bound every datetime).
list_checkoffs(h, start, end) ==
    IF Len(h.checkoff_list) = 0 THEN <<>>
    ELSE SelectSeq(h.checkoff_list,
                   LAMBDA checkoff :
                       /\ (start = <<>> \/ start[1] <= checkoff)
                       /\ (end = <<>> \/ checkoff <= end[1]))

\* What Habit.create_checkoff prints: which of its four branches it took.
create_checkoff_printed(h, checkoff_arg, t_now) ==
    LET checkoff == IF checkoff_arg = <<>> THEN t_now ELSE checkoff_arg[1]
    IN  IF Contains(h.checkoff_list, checkoff) THEN "already exists"
        ELSE IF checkoff > t_now THEN "can't log checkoffs for the future"
        ELSE IF checkoff < h.create_datetime THEN "can't log checkoff for before you created the habit"
        ELSE "successfully created"

\* create_checkoff that rejects a checkoff at the creation time as well.
create_checkoff_CreationExcluded(h, checkoff_arg, t_now) ==
    LET checkoff == IF checkoff_arg = <<>> THEN t_now ELSE checkoff_arg[1]
    IN  IF Contains(h.checkoff_list, checkoff) THEN h.checkoff_list
        ELSE IF checkoff > t_now THEN h.checkoff_list
        ELSE IF checkoff <= h.create_datetime THEN h.checkoff_list
        ELSE SortedInsert(h.checkoff_list, checkoff)

\* create_checkoff that accepts a checkoff later than the current time.
create_checkoff_FutureAccepted(h, checkoff_arg, t_now) ==
    LET checkoff == IF checkoff_arg = <<>> THEN t_now ELSE checkoff_arg[1]
    IN  IF Contains(h.checkoff_list, checkoff) THEN h.checkoff_list
        ELSE IF checkoff < h.create_datetime THEN h.checkoff_list
        ELSE SortedInsert(h.checkoff_list, checkoff)

\* Habit.create_checkoff, with the clock at t_now: the checkoff_list after the
\* call.  checkoff_arg is <<>> for None (then the current time is taken).
create_checkoff(h, checkoff_arg, t_now) ==
    LET checkoff == IF checkoff_arg = <<>> THEN t_now ELSE checkoff_arg[1]
    IN  IF Contains(h.checkoff_list, checkoff) THEN h.checkoff_list
        ELSE IF checkoff > t_now THEN h.checkoff_list
        ELSE IF checkoff < h.create_datetime THEN h.checkoff_list
        ELSE SortedInsert(h.checkoff_list, checkoff)

\* What Habit.delete_checkoff prints: which of its two branches it took.
delete_checkoff_printed(h, checkoff) ==
    IF ~Contains(h.checkoff_list, checkoff) THEN "No checkoff exists"
    ELSE "successfully deleted"

\* Habit.delete_checkoff: the checkoff_list after the call.
delete_checkoff(h, checkoff) ==
    IF ~Contains(h.checkoff_list, checkoff) THEN h.checkoff_list
    ELSE ListRemove(h.checkoff_list, checkoff)

\* edit_habit that sets the description to its default when none is given.
edit_habit_DescriptionReset(h, period_unit, period_length, required_checkoffs, habit_description) ==
    [h EXCEPT !.period_unit = IF period_unit /= <<>> THEN period_unit[1] ELSE @,
              !.period_length = IF period_length /= <<>> THEN period_length[1] ELSE @,
              !.required_checkoffs = IF required_checkoffs /= <<>> THEN required_checkoffs[1] ELSE @,
              !.habit_description = IF habit_description /= <<>> THEN habit_description[1] ELSE ""]

\* Habit.edit_habit: the habit after the call.  Each argument is <<>> for None
\* or <<value>>.
edit_habit(h, period_unit, period_length, required_checkoffs, habit_description) ==
    [h EXCEPT !.period_unit = IF period_unit /= <<>> THEN period_unit[1] ELSE @,
              !.period_length = IF period_length /= <<>> THEN period_length[1] ELSE @,
              !.required_checkoffs = IF required_checkoffs /= <<>> THEN required_checkoffs[1] ELSE @,
              !.habit_description = IF habit_description /= <<>> THEN habit_description[1] ELSE @]

----------------------------------------------------------------------------
(* User (tracking_classes.py)                                              *)

\* User.get_habit_name_list
get_habit_name_list(habit_list) == [i \in 1..Len(habit_list) |-> habit_list[i].habit_name]

\* User.habit_exists
habit_exists(habit_list, habit_name) == Contains(get_habit_name_list(habit_list), habit_name)

\* User.get_habit: the position of the first habit with the name, 0 for None.
get_habit(habit_list, habit_name) ==
    IF habit_exists(habit_list, habit_name)
    THEN CHOOSE i \in 1..Len(habit_list) :
             /\ habit_list[i].habit_name = habit_name
             /\ \A j \in 1..(i - 1) : habit_list[j].habit_name /= habit_name
    ELSE 0

\* User.delete_habit: habit_list after the call.  list.remove takes out the
\* habit get_habit has returned.
delete_habit(habit_list, habit_name) ==
    IF ~habit_exists(habit_list, habit_name) THEN habit_list
    ELSE LET habit_index == get_habit(habit_list, habit_name)
         IN  SubSeq(habit_list, 1, habit_index - 1)
                 \o SubSeq(habit_list, habit_index + 1, Len(habit_list))

\* add_habit that does not look for a habit of the same name.
add_habit_DuplicateAccepted(habit_list, h) == Append(habit_list, h)

\* User.add_habit: habit_list after the call.
add_habit(habit_list, h) ==
    IF habit_exists(habit_list, h.habit_name) THEN habit_list
    ELSE Append(habit_list, h)

\* What User.add_habit and User.delete_habit print.
add_habit_printed(habit_list, h) ==
    IF habit_exists(habit_list, h.habit_name) THEN "This habit already exists!"
    ELSE "successfully added"

delete_habit_printed(habit_list, habit_name) ==
    IF ~habit_exists(habit_list, habit_name) THEN "No habit with the name exists"
    ELSE "successfully deleted"

----------------------------------------------------------------------------
(* Period mapper (analysis_functions.py)                                   *)

\* get_period_timedelta with a month of 31 days.
get_period_timedelta_LongMonth(period_unit, period_length) ==
    IF period_unit = "weeks" THEN DaysPerWeek * period_length * TicksPerDay
    ELSE IF period_unit = "months" THEN (DaysPerMonth + 1) * period_length * TicksPerDay
    ELSE period_length * TicksPerDay

get_period_timedelta(period_unit, period_length) ==
    IF period_unit = "weeks" THEN DaysPerWeek * period_length * TicksPerDay
    ELSE IF period_unit = "months" THEN DaysPerMonth * period_length * TicksPerDay
    ELSE period_length * TicksPerDay

\* get_period with the difference taken the other way round.
get_period_Reversed(checkoff, start_date, period_timedelta) ==
    (start_date - checkoff) \div period_timedelta

\* timedelta // timedelta is floor division, as is \div.
get_period(checkoff, start_date, period_timedelta) ==
    (checkoff - start_date) \div period_timedelta

\* prepare_analysis_start_date that keeps the time of day.
prepare_analysis_start_date_TimeKept(h, start_date) ==
    Max(start_date, h.create_datetime)

\* prepare_analysis_start_date that does not clamp to the creation time.
prepare_analysis_start_date_Unclamped(h, start_date) ==
    CombineTimeMin(start_date)

prepare_analysis_start_date(h, start_date) ==
    CombineTimeMin(Max(start_date, h.create_datetime))

----------------------------------------------------------------------------
(* dict helpers: a dict is a function from its keys to its values          *)

EmptyDict == [k \in {} |-> 0]

DictGet(d, k, default) == IF k \in DOMAIN d THEN d[k] ELSE default

DictPut(d, k, v) == [x \in (DOMAIN d) \cup {k} |-> IF x = k THEN v ELSE d[x]]

SetMin(S) == CHOOSE x \in S : \A y \in S : x <= y

\* sorted(d.keys())
RECURSIVE SortedKeys(_)
SortedKeys(S) ==
    IF S = {} THEN <<>>
    ELSE <<SetMin(S)>> \o SortedKeys(S \ {SetMin(S)})

\* CountCheckoffs that stores 1 for a period instead of adding 1 to its count.
RECURSIVE CountCheckoffs_NotAccumulated(_, _, _, _)
CountCheckoffs_NotAccumulated(checkoff_list_filtered, start_date, period_timedelta, period_checkoff_dict) ==
    IF checkoff_list_filtered = <<>> THEN period_checkoff_dict
    ELSE LET period_index == get_period(Head(checkoff_list_filtered), start_date, period_timedelta)
         IN  CountCheckoffs_NotAccumulated(Tail(checkoff_list_filtered), start_date,
                                           period_timedelta,
                                           DictPut(period_checkoff_dict, period_index, 1))

\* The for loop of get_period_checkoff_dict over the filtered checkoffs.
RECURSIVE CountCheckoffs(_, _, _, _)
CountCheckoffs(checkoff_list_filtered, start_date, period_timedelta, period_checkoff_dict) ==
    IF checkoff_list_filtered = <<>> THEN period_checkoff_dict
    ELSE LET period_index == get_period(Head(checkoff_list_filtered), start_date, period_timedelta)
         IN  CountCheckoffs(Tail(checkoff_list_filtered), start_date, period_timedelta,
                            DictPut(period_checkoff_dict, period_index,
                                    DictGet(period_checkoff_dict, period_index, 0) + 1))

get_period_checkoff_dict(h, start_arg) ==
    LET start_date == prepare_analysis_start_date(h, start_arg)
        period_timedelta == get_period_timedelta(h.period_unit, h.period_length)
        checkoff_list_filtered == list_checkoffs(h, <<start_date>>, <<>>)
    IN  IF Len(checkoff_list_filtered) = 0 THEN EmptyDict
        ELSE CountCheckoffs(checkoff_list_filtered, start_date, period_timedelta, EmptyDict)

----------------------------------------------------------------------------
(* Streak / rate analyzer (analysis_functions.py)                          *)

\* round(n / d, 2) for d > 0 and n >= 0, in hundredths.  A tie (the third decimal
\* is exactly 5) is rounded to the even hundredth: a tie only occurs for
\* eighths, which a float holds exactly, unless there are 40 periods or 200,
\* which no specification reaches.
RoundHundredths(n, d) ==
    LET q == (100 * n) \div d
        r == (100 * n) % d
    IN  IF 2 * r < d THEN q
        ELSE IF 2 * r > d THEN q + 1
        ELSE IF q % 2 = 0 THEN q ELSE q + 1

\* round(nr_of_success_periods / nr_of_periods, 2) for nr_of_periods /= 0.
round2(nr_of_success_periods, nr_of_periods) ==
    IF nr_of_periods > 0 THEN RoundHundredths(nr_of_success_periods, nr_of_periods)
    ELSE 0 - RoundHundredths(nr_of_success_periods, 0 - nr_of_periods)

\* The temporary variables of calc_analysis_info before the loop.
LoopInit == [max_streak |-> 0, active_streak |-> 0, current_streak |-> 0,
             nr_of_success_periods |-> 0]

\* LoopBody with the success of the next period taken from the next key of the
\* dict instead of from period_index + 1.
LoopBody_NextVisited(st, period_index, period_checkoff_dict, required_checkoffs, last_period) ==
    LET success == period_checkoff_dict[period_index] >= required_checkoffs
        later == { k \in DOMAIN period_checkoff_dict : k > period_index }
        next_period_success ==
            later /= {} /\ period_checkoff_dict[SetMin(later)] >= required_checkoffs
        s1 == IF success
              THEN [st EXCEPT !.current_streak = @ + 1, !.nr_of_success_periods = @ + 1]
              ELSE st
        streak_active == (last_period - period_index <= 1)
    IN  IF ~next_period_success /\ s1.current_streak > 0
        THEN [s1 EXCEPT !.max_streak = Max(@, s1.current_streak),
                        !.active_streak = IF streak_active THEN s1.current_streak ELSE @,
                        !.current_streak = 0]
        ELSE s1

\* LoopBody with a streak active only if it ends in the running period.
LoopBody_ActiveOnlyRunning(st, period_index, period_checkoff_dict, required_checkoffs, last_period) ==
    LET success == period_checkoff_dict[period_index] >= required_checkoffs
        next_period_success ==
            DictGet(period_checkoff_dict, period_index + 1, 0) >= required_checkoffs
        s1 == IF success
              THEN [st EXCEPT !.current_streak = @ + 1, !.nr_of_success_periods = @ + 1]
              ELSE st
        streak_active == (last_period - period_index <= 0)
    IN  IF ~next_period_success /\ s1.current_streak > 0
        THEN [s1 EXCEPT !.max_streak = Max(@, s1.current_streak),
                        !.active_streak = IF streak_active THEN s1.current_streak ELSE @,
                        !.current_streak = 0]
        ELSE s1

\* LoopBody that closes a streak only when a later period has a checkoff.
LoopBody_OpenAtEnd(st, period_index, period_checkoff_dict, required_checkoffs, last_period) ==
    LET success == period_checkoff_dict[period_index] >= required_checkoffs
        next_period_success ==
            DictGet(period_checkoff_dict, period_index + 1, 0) >= required_checkoffs
        s1 == IF success
              THEN [st EXCEPT !.current_streak = @ + 1, !.nr_of_success_periods = @ + 1]
              ELSE st
        streak_active == (last_period - period_index <= 1)
    IN  IF /\ ~next_period_success /\ s1.current_streak > 0
           /\ \E k \in DOMAIN period_checkoff_dict : k > period_index
        THEN [s1 EXCEPT !.max_streak = Max(@, s1.current_streak),
                        !.active_streak = IF streak_active THEN s1.current_streak ELSE @,
                        !.current_streak = 0]
        ELSE s1

\* LoopBody that closes the streak after every successful period.
LoopBody_ClosedEachPeriod(st, period_index, period_checkoff_dict, required_checkoffs, last_period) ==
    LET success == period_checkoff_dict[period_index] >= required_checkoffs
        next_period_success ==
            FALSE
        s1 == IF success
              THEN [st EXCEPT !.current_streak = @ + 1, !.nr_of_success_periods = @ + 1]
              ELSE st
        streak_active == (last_period - period_index <= 1)
    IN  IF ~next_period_success /\ s1.current_streak > 0
        THEN [s1 EXCEPT !.max_streak = Max(@, s1.current_streak),
                        !.active_streak = IF streak_active THEN s1.current_streak ELSE @,
                        !.current_streak = 0]
        ELSE s1

\* LoopBody that compares a streak with max_streak only when it is not active.
LoopBody_MaxOnlyInactive(st, period_index, period_checkoff_dict, required_checkoffs, last_period) ==
    LET success == period_checkoff_dict[period_index] >= required_checkoffs
        next_period_success ==
            DictGet(period_checkoff_dict, period_index + 1, 0) >= required_checkoffs
        s1 == IF success
              THEN [st EXCEPT !.current_streak = @ + 1, !.nr_of_success_periods = @ + 1]
              ELSE st
        streak_active == (last_period - period_index <= 1)
    IN  IF ~next_period_success /\ s1.current_streak > 0
        THEN [s1 EXCEPT !.max_streak = IF streak_active THEN @ ELSE Max(@, s1.current_streak),
                        !.active_streak = IF streak_active THEN s1.current_streak ELSE @,
                        !.current_streak = 0]
        ELSE s1

\* One iteration of the loop of calc_analysis_info, for period_index.
LoopBody(st, period_index, period_checkoff_dict, required_checkoffs, last_period) ==
    LET success == period_checkoff_dict[period_index] >= required_checkoffs
        next_period_success ==
            DictGet(period_checkoff_dict, period_index + 1, 0) >= required_checkoffs
        s1 == IF success
              THEN [st EXCEPT !.current_streak = @ + 1, !.nr_of_success_periods = @ + 1]
              ELSE st
        streak_active == (last_period - period_index <= 1)
    IN  IF ~next_period_success /\ s1.current_streak > 0
        THEN [s1 EXCEPT !.max_streak = Max(@, s1.current_streak),
                        !.active_streak = IF streak_active THEN s1.current_streak ELSE @,
                        !.current_streak = 0]
        ELSE s1

\* The loop over sorted(period_checkoff_dict.keys()).
RECURSIVE Loop(_, _, _, _, _)
Loop(st, keys, period_checkoff_dict, required_checkoffs, last_period) ==
    IF keys = <<>> THEN st
    ELSE Loop(LoopBody(st, Head(keys), period_checkoff_dict, required_checkoffs, last_period),
              Tail(keys), period_checkoff_dict, required_checkoffs, last_period)

\* NrOfPeriods without the running period.
NrOfPeriods_RunningExcluded(last_period) == last_period

\* nr_of_periods: the running period counts.
NrOfPeriods(last_period) == last_period + 1

\* The exception that ends get_period_checkoff_dict, "" when it returns: get_period
\* divides by period_timedelta for the first checkoff of the filtered list.
get_period_checkoff_dict_raised(h, start_arg) ==
    LET start_date == prepare_analysis_start_date(h, start_arg)
        period_timedelta == get_period_timedelta(h.period_unit, h.period_length)
        checkoff_list_filtered == list_checkoffs(h, <<start_date>>, <<>>)
    IN  IF Len(checkoff_list_filtered) /= 0 /\ period_timedelta = 0
        THEN "ZeroDivisionError" ELSE ""

\* calc_analysis_info with the clock at t_now: its local variables when it ends.
\* A local that was never assigned is <<>>; raised names the exception that
\* ended the call, "" when it returned analysis_info_dict.
calc_analysis_info(h, start_arg, t_now) ==
    LET start_date == prepare_analysis_start_date(h, start_arg)
        period_checkoff_dict == get_period_checkoff_dict(h, start_date)
        zero == [max_streak |-> 0, active_streak |-> 0, success_rate |-> 0]
    IN  IF get_period_checkoff_dict_raised(h, start_date) /= ""
        THEN [start_date |-> start_date,
              period_checkoff_dict |-> <<>>,
              last_period |-> <<>>,
              nr_of_periods |-> <<>>,
              loop |-> <<>>,
              analysis_info_dict |-> <<>>,
              raised |-> get_period_checkoff_dict_raised(h, start_date)]
        ELSE IF Cardinality(DOMAIN period_checkoff_dict) = 0
        THEN [start_date |-> start_date,
              period_checkoff_dict |-> period_checkoff_dict,
              last_period |-> <<>>,
              nr_of_periods |-> <<>>,
              loop |-> <<>>,
              analysis_info_dict |-> zero,
              raised |-> ""]
        ELSE
        LET period_timedelta == get_period_timedelta(h.period_unit, h.period_length)
            last_period == get_period(t_now, start_date, period_timedelta)
            nr_of_periods == NrOfPeriods(last_period)
            st == Loop(LoopInit, SortedKeys(DOMAIN period_checkoff_dict),
                       period_checkoff_dict, h.required_checkoffs, last_period)
        IN  [start_date |-> start_date,
             period_checkoff_dict |-> period_checkoff_dict,
             last_period |-> <<last_period>>,
             nr_of_periods |-> <<nr_of_periods>>,
             loop |-> <<st>>,
             analysis_info_dict |->
                 IF nr_of_periods = 0 THEN zero
                 ELSE [max_streak |-> st.max_streak,
                       active_streak |-> st.active_streak,
                       success_rate |-> round2(st.nr_of_success_periods, nr_of_periods)],
             raised |-> IF nr_of_periods = 0 THEN "ZeroDivisionError" ELSE ""]

----------------------------------------------------------------------------
(* The inputs of the model                                                 *)

\* <<period_unit, period_length>>
Periodicities == {<<"days", 1>>, <<"days", 2>>, <<"weeks", 1>>, <<"months", 1>>}

RequiredCheckoffs == {1, 2}

\* A habit is created on the day after the default start date, at midnight or later.
CreateDatetimes == {TicksPerDay, TicksPerDay + 1}

\* Midnight of the day the habit was created.
Origin(h) == CombineTimeMin(h.create_datetime)

PeriodTimedelta(h) == get_period_timedelta(h.period_unit, h.period_length)

\* The instants the clock and the checkoffs are drawn from: the first and the
\* last tick of each of the first MaxPeriods + 1 periods after the creation day
\* (the clock also starts at the creation time).
Timestamps(h) ==
    { Origin(h) + k * PeriodTimedelta(h) + o :
        k \in 0..MaxPeriods, o \in {0, PeriodTimedelta(h) - 1} }

\* The requested start dates: the default, the creation day and the creation
\* time, the next day, a time of day inside the second period, and a day after
\* every instant of the model.
StartDates(h) ==
    { DefaultStartDate, Origin(h), h.create_datetime, Origin(h) + TicksPerDay,
      Origin(h) + PeriodTimedelta(h) + 1,
      Origin(h) + (MaxPeriods + 1) * PeriodTimedelta(h) }

----------------------------------------------------------------------------
(* The state machine                                                       *)

Init ==
    /\ \E p \in Periodicities, r \in RequiredCheckoffs, c \in CreateDatetimes :
          /\ habit = NewHabit("habit", p[1], p[2], r, "", c)
          /\ now = c
    /\ pc = "idle"
    /\ arg = <<>>
    /\ frame = <<>>
    /\ user = NoUser
    /\ db = NoDatabase

\* Time passes.
Tick ==
    /\ pc = "idle"
    /\ \E t \in Timestamps(habit) : t > now /\ now' = t
    /\ UNCHANGED <<habit, pc, arg, frame>>
    /\ UNCHANGED <<user, db>>

\* habit.create_checkoff(checkoff), checkoff None or a timestamp.
CreateCheckoff ==
    /\ pc = "idle"
    /\ Len(habit.checkoff_list) < MaxCheckoffs
    /\ \E checkoff \in {<<>>} \cup { <<t>> : t \in Timestamps(habit) } :
          habit' = [habit EXCEPT !.checkoff_list = create_checkoff(habit, checkoff, now)]
    /\ UNCHANGED <<now, pc, arg, frame>>
    /\ UNCHANGED <<user, db>>

\* habit.delete_checkoff(checkoff)
DeleteCheckoff ==
    /\ pc = "idle"
    /\ \E checkoff \in Timestamps(habit) :
          habit' = [habit EXCEPT !.checkoff_list = delete_checkoff(habit, checkoff)]
    /\ UNCHANGED <<now, pc, arg, frame>>
    /\ UNCHANGED <<user, db>>

\* get_period_checkoff_dict(habit, start_date)
GetPeriodCheckoffDict ==
    /\ pc = "idle"
    /\ \E start_date \in StartDates(habit) :
          /\ arg' = <<start_date>>
          /\ frame' = [start_date |-> prepare_analysis_start_date(habit, start_date),
                        period_checkoff_dict |-> get_period_checkoff_dict(habit, start_date)]
    /\ pc' = "get_period_checkoff_dict"
    /\ UNCHANGED <<now, habit>>
    /\ UNCHANGED <<user, db>>

\* calc_analysis_info(habit, start_date)
CalcAnalysisInfo ==
    /\ pc = "idle"
    /\ \E start_date \in StartDates(habit) :
          /\ arg' = <<start_date>>
          /\ frame' = calc_analysis_info(habit, start_date, now)
    /\ pc' = "calc_analysis_info"
    /\ UNCHANGED <<now, habit>>
    /\ UNCHANGED <<user, db>>

\* The caller has taken the result.
Return ==
    /\ pc /= "idle"
    /\ pc' = "idle"
    /\ arg' = <<>>
    /\ frame' = <<>>
    /\ UNCHANGED <<now, habit>>
    /\ UNCHANGED <<user, db>>

Next ==
    \/ Tick
    \/ CreateCheckoff
    \/ DeleteCheckoff
    \/ GetPeriodCheckoffDict
    \/ CalcAnalysisInfo
    \/ Return

Spec == Init /\ [][Next]_vars

----------------------------------------------------------------------------
(* The period mapper on its own: get_period_timedelta and get_period       *)
(* called with arguments that need not come from a habit.                  *)

\* The period units, recognised or not.
Units == {"days", "weeks", "months", "years", ""}

Lengths == 1..MaxLength

Timedeltas == { get_period_timedelta(u, l) : u \in Units, l \in Lengths }

\* Start dates with and without a time of day.
FnStartDates == {DefaultStartDate, TicksPerDay, TicksPerDay + 1}

\* The checkoffs given to get_period: the first, the second and the last tick
\* of the period before start_date and of the first MaxPeriods + 1 periods.
FnCheckoffs(start_date, period_timedelta) ==
    { start_date + k * period_timedelta + o :
        k \in (0 - 1)..MaxPeriods, o \in {0, 1, period_timedelta - 1} }

InitFn ==
    /\ habit = NewHabit("habit", "days", 1, 1, "", TicksPerDay)
    /\ now = TicksPerDay
    /\ pc = "idle"
    /\ arg = <<>>
    /\ frame = <<>>
    /\ user = NoUser
    /\ db = NoDatabase

\* get_period_timedelta(period_unit, period_length)
GetPeriodTimedelta ==
    /\ pc = "idle"
    /\ \E period_unit \in Units, period_length \in Lengths :
          /\ arg' = <<period_unit, period_length>>
          /\ frame' = [value |-> get_period_timedelta(period_unit, period_length)]
    /\ pc' = "get_period_timedelta"
    /\ UNCHANGED <<now, habit>>
    /\ UNCHANGED <<user, db>>

\* get_period(checkoff, start_date, period_timedelta)
GetPeriod ==
    /\ pc = "idle"
    /\ \E start_date \in FnStartDates, period_timedelta \in Timedeltas :
          \E checkoff \in FnCheckoffs(start_date, period_timedelta) :
              /\ arg' = <<checkoff, start_date, period_timedelta>>
              /\ frame' = [value |-> get_period(checkoff, start_date, period_timedelta)]
    /\ pc' = "get_period"
    /\ UNCHANGED <<now, habit>>
    /\ UNCHANGED <<user, db>>

NextFn ==
    \/ GetPeriodTimedelta
    \/ GetPeriod
    \/ Return

SpecFn == InitFn /\ [][NextFn]_vars

----------------------------------------------------------------------------
(* What the analysis is meant to compute, stated over the periods          *)
(* themselves: period k of an analysis that starts at start is the         *)
(* interval [start + k * td, start + (k + 1) * td).                        *)

\* t is the first tick of a day.
IsMidnight(t) == \E d \in 0..t : t = d * TicksPerDay

\* The analysis start: the midnight of the day of the later of the requested
\* start and the creation time.
ResolvedStart(h, requested) ==
    LET later == IF requested > h.create_datetime THEN requested ELSE h.create_datetime
    IN  CHOOSE m \in (later - TicksPerDay + 1)..later : IsMidnight(m)

\* The period indices a checkoff or the clock of the model can lie in, and one
\* more on each side.
PeriodIndices == (0 - 1)..(MaxPeriods + 1)

InPeriod(t, start, td, k) == start + k * td <= t /\ t < start + (k + 1) * td

\* The number of checkoffs at or after start that lie in period k.
CheckoffCount(h, start, k) ==
    Cardinality({ i \in 1..Len(h.checkoff_list) :
                    /\ h.checkoff_list[i] >= start
                    /\ InPeriod(h.checkoff_list[i], start, PeriodTimedelta(h), k) })

Successful(h, start, k) == CheckoffCount(h, start, k) >= h.required_checkoffs

SuccessfulPeriods(h, start) == { k \in PeriodIndices : Successful(h, start, k) }

\* The maximal runs of consecutive successful periods, as <<first, last>>.
Runs(h, start) ==
    LET S == SuccessfulPeriods(h, start)
    IN  { r \in S \X S :
            /\ r[1] <= r[2]
            /\ \A k \in r[1]..r[2] : k \in S
            /\ (r[1] - 1) \notin S
            /\ (r[2] + 1) \notin S }

RunLength(r) == r[2] - r[1] + 1

SetMax(S) == CHOOSE x \in S : \A y \in S : y <= x

LongestRun(h, start) == SetMax({ RunLength(r) : r \in Runs(h, start) } \cup {0})

\* The period that contains t (t not before start).
PeriodOf(t, start, td) == CHOOSE k \in PeriodIndices : InPeriod(t, start, td, k)

\* The runs whose last successful period is the running period or the one before it.
ActiveRuns(h, start, t_now) ==
    { r \in Runs(h, start) :
        \E k \in PeriodIndices :
            /\ InPeriod(t_now, start, PeriodTimedelta(h), k)
            /\ r[2] \in {k - 1, k} }

Returned(f) == pc = f

Requested == arg[1]

Result == frame.analysis_info_dict

----------------------------------------------------------------------------
(* C1: whenever calc_analysis_info has returned, max_streak is the length  *)
(* of the longest maximal run of consecutive period indices, counted from  *)
(* the resolved analysis start, whose checkoff count is at least           *)
(* required_checkoffs; a period without checkoffs ends a run.              *)
C1_MaxStreakIsLongestRun ==
    Returned("calc_analysis_info") =>
        Result.max_streak = LongestRun(habit, ResolvedStart(habit, Requested))

\* Two runs separated by an unsuccessful period, the longer one of length 2.
C1_Witness ==
    /\ Returned("calc_analysis_info")
    /\ Result.max_streak = 2
    /\ Cardinality(Runs(habit, ResolvedStart(habit, Requested))) = 2

(* C2: whenever calc_analysis_info has returned (every checkoff is at or   *)
(* before the current time), active_streak is the length of the run whose  *)
(* last successful period is the running period or the one before it, and  *)
(* 0 when there is no such run, whatever max_streak is.                    *)
C2_ActiveStreakIsRecentRun ==
    Returned("calc_analysis_info") =>
        LET active == ActiveRuns(habit, ResolvedStart(habit, Requested), now)
        IN  /\ Cardinality(active) <= 1
            /\ \A r \in active : Result.active_streak = RunLength(r)
            /\ active = {} => Result.active_streak = 0

\* An active run that is shorter than the longest run.
C2_Witness ==
    /\ Returned("calc_analysis_info")
    /\ Result.active_streak = 1
    /\ Result.max_streak = 2
    /\ ActiveRuns(habit, ResolvedStart(habit, Requested), now) /= {}

(* C3: whenever calc_analysis_info has returned with a non-empty bucket    *)
(* mapping, success_rate is the number of successful periods divided by    *)
(* last_period + 1 (to the nearest hundredth), last_period being the       *)
(* period that contains the current time: periods without checkoffs and    *)
(* the running period count in the denominator.                            *)
C3_SuccessRateOverAllPeriods ==
    (Returned("calc_analysis_info") /\ DOMAIN frame.period_checkoff_dict /= {}) =>
        LET start == ResolvedStart(habit, Requested)
            n == Cardinality(SuccessfulPeriods(habit, start))
            d == PeriodOf(now, start, PeriodTimedelta(habit)) + 1
            diff == 100 * n - Result.success_rate * d
        IN  /\ d >= 1
            /\ frame.raised = ""
            /\ 2 * diff <= d
            /\ 2 * (0 - diff) <= d

\* A rate strictly between 0 and 1 with a period without checkoffs before the
\* running period, the running period being unsuccessful.
C3_Witness ==
    /\ Returned("calc_analysis_info")
    /\ Result.success_rate = 50
    /\ frame.nr_of_periods = <<4>>
    /\ 1 \notin DOMAIN frame.period_checkoff_dict
    /\ 3 \notin DOMAIN frame.period_checkoff_dict

(* C4: whenever calc_analysis_info has returned, 0 <= success_rate <= 1,   *)
(* and when the loop ran the number of successful periods is at most the   *)
(* number of periods last_period + 1.                                      *)
C4_SuccessRateBetween0And1 ==
    Returned("calc_analysis_info") =>
        /\ 0 <= Result.success_rate
        /\ Result.success_rate <= 100
        /\ frame.loop /= <<>> =>
              frame.loop[1].nr_of_success_periods <= frame.last_period[1] + 1

\* Every period since the start is successful, the running one included.
C4_Witness ==
    /\ Returned("calc_analysis_info")
    /\ Result.success_rate = 100
    /\ frame.nr_of_periods = <<3>>

(* C5: whenever calc_analysis_info has returned for a habit without a      *)
(* checkoff at or after the resolved analysis start, the result is         *)
(* max_streak 0, active_streak 0, success_rate 0, and neither last_period  *)
(* nor the division was computed.                                          *)
C5_NoCheckoffZeroResult ==
    (/\ Returned("calc_analysis_info")
     /\ \A i \in 1..Len(habit.checkoff_list) :
            habit.checkoff_list[i] < ResolvedStart(habit, Requested)) =>
        /\ Result = [max_streak |-> 0, active_streak |-> 0, success_rate |-> 0]
        /\ frame.last_period = <<>>
        /\ frame.nr_of_periods = <<>>
        /\ frame.loop = <<>>
        /\ frame.raised = ""

\* The habit has checkoffs, all of them before the analysis start.
C5_Witness ==
    /\ Returned("calc_analysis_info")
    /\ Len(habit.checkoff_list) >= 2
    /\ \A i \in 1..Len(habit.checkoff_list) :
           habit.checkoff_list[i] < ResolvedStart(habit, Requested)
    /\ Result = [max_streak |-> 0, active_streak |-> 0, success_rate |-> 0]

(* C6: the start date that prepare_analysis_start_date returns (to         *)
(* get_period_checkoff_dict and calc_analysis_info) is midnight of the day *)
(* of max(requested start, create_datetime), and is never earlier than the *)
(* day the habit was created.                                              *)
C6_StartIsMidnightOfLaterDay ==
    (Returned("calc_analysis_info") \/ Returned("get_period_checkoff_dict")) =>
        LET later == IF Requested > habit.create_datetime
                     THEN Requested ELSE habit.create_datetime
        IN  /\ IsMidnight(frame.start_date)
            /\ frame.start_date <= later
            /\ later < frame.start_date + TicksPerDay
            /\ habit.create_datetime < frame.start_date + TicksPerDay

\* A start requested before a creation time that is not midnight: the start is
\* clamped to the creation time and then cut to the start of that day.
C6_Witness ==
    /\ Returned("get_period_checkoff_dict")
    /\ Requested < habit.create_datetime
    /\ ~IsMidnight(habit.create_datetime)
    /\ frame.start_date < habit.create_datetime
    /\ frame.start_date > Requested

RECURSIVE SumValues(_, _)
SumValues(d, keys) ==
    IF keys = {} THEN 0
    ELSE LET k == CHOOSE x \in keys : TRUE
         IN  d[k] + SumValues(d, keys \ {k})

(* C9: the mapping get_period_checkoff_dict returns holds, for every key   *)
(* k, the number of checkoffs t >= start with                              *)
(* start + k * duration <= t < start + (k + 1) * duration (start the       *)
(* resolved analysis start); k is a key exactly if that number is >= 1;    *)
(* the values sum to the number of checkoffs at or after start.            *)
C9_DictCountsCheckoffsPerPeriod ==
    (Returned("get_period_checkoff_dict") \/ Returned("calc_analysis_info")) =>
        LET d == frame.period_checkoff_dict
            start == ResolvedStart(habit, Requested)
        IN  /\ \A k \in DOMAIN d : d[k] = CheckoffCount(habit, start, k)
            /\ \A k \in PeriodIndices \cup DOMAIN d :
                   k \in DOMAIN d <=> CheckoffCount(habit, start, k) >= 1
            /\ SumValues(d, DOMAIN d) =
                   Cardinality({ i \in 1..Len(habit.checkoff_list) :
                                   habit.checkoff_list[i] >= start })

\* Two checkoffs in one period, none in period 0, and a checkoff before the start.
C9_Witness ==
    /\ Returned("get_period_checkoff_dict")
    /\ \E k \in DOMAIN frame.period_checkoff_dict : frame.period_checkoff_dict[k] = 2
    /\ 0 \notin DOMAIN frame.period_checkoff_dict
    /\ \E i \in 1..Len(habit.checkoff_list) : habit.checkoff_list[i] < frame.start_date

(* C10: for a requested start date not later than create_datetime,         *)
(* get_period_checkoff_dict and calc_analysis_info return what they return *)
(* for the default start date.                                             *)
C10_StartBeforeCreationIsDefault ==
    /\ (Returned("get_period_checkoff_dict") /\ Requested <= habit.create_datetime) =>
           frame.period_checkoff_dict = get_period_checkoff_dict(habit, DefaultStartDate)
    /\ (Returned("calc_analysis_info") /\ Requested <= habit.create_datetime) =>
           /\ Result = calc_analysis_info(habit, DefaultStartDate, now).analysis_info_dict
           /\ frame.raised = calc_analysis_info(habit, DefaultStartDate, now).raised

\* A start on the creation day, before the creation time, for a habit with a streak.
C10_Witness ==
    /\ Returned("calc_analysis_info")
    /\ Requested /= DefaultStartDate
    /\ Requested < habit.create_datetime
    /\ Result.max_streak >= 2

(* C7: for a positive period duration, get_period(t, start_date, duration) *)
(* is >= 0 for every t >= start_date, and get_period is non-decreasing in  *)
(* t: for t1 <= t2, get_period(t1, ...) <= get_period(t2, ...).            *)
C7_PeriodIndexNonNegativeMonotone ==
    Returned("get_period") =>
        LET t1 == arg[1]
            start_date == arg[2]
            duration == arg[3]
        IN  /\ duration > 0
            /\ t1 >= start_date => frame.value >= 0
            /\ \A t2 \in FnCheckoffs(start_date, duration) :
                   /\ t1 <= t2 => frame.value <= get_period(t2, start_date, duration)
                   /\ t2 <= t1 => get_period(t2, start_date, duration) <= frame.value

\* A timestamp in the third period after a start date with a time of day.
C7_Witness ==
    /\ Returned("get_period")
    /\ arg[2] = TicksPerDay + 1
    /\ arg[1] > arg[2] + 2 * arg[3]
    /\ frame.value = 2

(* C8: get_period_timedelta(unit, length) is length x 7 days for 'weeks',  *)
(* length x 30 days for 'months', and length days for 'days' and for every *)
(* other unit; it returns a duration for every unit.                       *)
C8_PeriodTimedeltaByUnit ==
    Returned("get_period_timedelta") =>
        LET unit == arg[1]
            length == arg[2]
            days == frame.value \div TicksPerDay
        IN  /\ frame.value = days * TicksPerDay
            /\ unit = "weeks" => days = length * 7
            /\ unit = "months" => days = length * 30
            /\ unit \notin {"weeks", "months"} => days = length

\* An unrecognised unit with a length above 1.
C8_Witness ==
    /\ Returned("get_period_timedelta")
    /\ arg[1] = "years"
    /\ arg[2] = 2
    /\ frame.value = 2 * TicksPerDay

----------------------------------------------------------------------------
(* The example tracking data (setup_test_tracking_data.py)                 *)

IsLeap(year) == (year % 4 = 0 /\ year % 100 /= 0) \/ year % 400 = 0

\* The number of leap years before year.
LeapDaysBefore(year) == (year - 1) \div 4 - (year - 1) \div 100 + (year - 1) \div 400

DaysBeforeMonth(year, month) ==
    <<0, 31, 59, 90, 120, 151, 181, 212, 243, 273, 304, 334>>[month]
        + (IF month > 2 /\ IsLeap(year) THEN 1 ELSE 0)

\* The number of days from 1999-01-01 to year-month-day.
Date(year, month, day) ==
    (year - 1999) * 365 + LeapDaysBefore(year) - LeapDaysBefore(1999)
        + DaysBeforeMonth(year, month) + (day - 1)

\* datetime(year, month, day, hour, minute), in ticks.
datetime(year, month, day, hour, minute) ==
    Date(year, month, day) * TicksPerDay + ((hour * 60 + minute) * TicksPerDay) \div (24 * 60)

\* habit.checkoff_list = checkoff_list
WithCheckoffs(h, checkoff_list) == [h EXCEPT !.checkoff_list = checkoff_list]

habit_monthly ==
    WithCheckoffs(NewHabit("plan_monthly", "months", 1, 1, "", datetime(2023, 12, 1, 0, 0)),
                  <<datetime(2023, 12, 21, 0, 0), datetime(2024, 1, 30, 0, 0)>>)

habit_biweekly ==
    WithCheckoffs(NewHabit("restock_three_times_biweekly", "weeks", 2, 3,
                           "restock 3 times in 2 weeks", datetime(2023, 12, 1, 0, 0)),
                  <<datetime(2023, 12, 5, 12, 0), datetime(2023, 12, 7, 10, 0),
                    datetime(2023, 12, 13, 11, 0), datetime(2023, 12, 27, 16, 15),
                    datetime(2023, 12, 30, 13, 0), datetime(2024, 1, 5, 18, 15),
                    datetime(2024, 1, 6, 0, 0), datetime(2024, 1, 20, 0, 0),
                    datetime(2024, 1, 25, 0, 0)>>)

\* The days of January 2024 with a checkoff of habit_daily.
DailyDays == <<6, 9, 11, 13, 14, 16, 17, 18, 19, 20, 21, 23, 24, 25, 26, 28, 29, 30>>

habit_daily ==
    WithCheckoffs(NewHabit("skin_care_daily", "days", 1, 1, "", datetime(2024, 1, 1, 0, 0)),
                  [i \in 1..Len(DailyDays) |-> datetime(2024, 1, DailyDays[i], 0, 0)])

\* The days of January 2024 with a checkoff of habit_daily2.
Daily2Days == <<1, 4, 7, 12, 13, 14, 19, 20, 22, 26, 27>>

habit_daily2 ==
    WithCheckoffs(NewHabit("sleep_daily", "days", 1, 1, "", datetime(2023, 12, 21, 15, 5)),
                  [i \in 1..Len(Daily2Days) |-> datetime(2024, 1, Daily2Days[i], 0, 0)])

habit_weekly ==
    WithCheckoffs(NewHabit("climb_weekly", "weeks", 1, 1, "Go to climbing gym.",
                           datetime(2023, 12, 1, 0, 0)),
                  <<datetime(2023, 12, 6, 0, 0), datetime(2023, 12, 14, 0, 0),
                    datetime(2023, 12, 22, 0, 0), datetime(2024, 1, 14, 0, 0),
                    datetime(2024, 1, 18, 0, 0), datetime(2024, 1, 24, 0, 0)>>)

example_habit_list == <<habit_monthly, habit_biweekly, habit_daily, habit_daily2, habit_weekly>>

\* The list of the test of the lowest success rate.
shorter_habit_list == <<habit_biweekly, habit_monthly, habit_daily, habit_weekly>>

\* The frozen clock of the tests: 2024-01-30 19:00.
FrozenNow == datetime(2024, 1, 30, 19, 0)

\* The start dates the tests request, and the default.
ExampleStartDates ==
    { DefaultStartDate, datetime(2023, 11, 8, 0, 0), datetime(2023, 12, 7, 0, 0),
      datetime(2024, 1, 16, 0, 0) }

----------------------------------------------------------------------------
(* Batch aggregation and reductions (analysis_functions.py).  A DataFrame  *)
(* is the sequence of its rows, a row a record of its columns; the index   *)
(* of a row is its position (ignore_index=True).                            *)

MaxBatch == 2

MaxDaysLater == 6

\* What Series.max() and Series.min() return for a Series without values.
NaN == "nan"

\* A DataFrame with the columns of the analysis table and no row.
EmptyDataFrame == <<>>

\* get_basic_habit_info: the attributes of the habit without checkoff_list.
get_basic_habit_info(h) ==
    [habit_name         |-> h.habit_name,
     period_unit        |-> h.period_unit,
     period_length      |-> h.period_length,
     required_checkoffs |-> h.required_checkoffs,
     habit_description  |-> h.habit_description,
     create_datetime    |-> h.create_datetime]

\* get_analysis_info_table_for_habit: the one row of the DataFrame.
get_analysis_info_table_for_habit(h, start_date, t_now) ==
    LET analysis_info_dict == calc_analysis_info(h, start_date, t_now).analysis_info_dict
        df == get_basic_habit_info(h)
    IN  [habit_name         |-> df.habit_name,
         period_unit        |-> df.period_unit,
         period_length      |-> df.period_length,
         required_checkoffs |-> df.required_checkoffs,
         habit_description  |-> df.habit_description,
         create_datetime    |-> df.create_datetime,
         max_streak         |-> analysis_info_dict.max_streak,
         active_streak      |-> analysis_info_dict.active_streak,
         success_rate       |-> analysis_info_dict.success_rate]

\* get_analysis_info_table_for_habit_list with the rows in reverse order.
get_analysis_info_table_for_habit_list_Reversed(habit_list, start_date, t_now) ==
    [df |-> [i \in 1..Len(habit_list) |->
                 get_analysis_info_table_for_habit(habit_list[Len(habit_list) + 1 - i],
                                                   start_date, t_now)],
     raised |-> IF Len(habit_list) = 0 THEN "ValueError" ELSE ""]

\* get_analysis_info_table_for_habit_list: the DataFrame it returns, or the
\* exception that ends it: that of the first habit whose analysis raises, or the
\* ValueError of df_concat for a list without DataFrames.
get_analysis_info_table_for_habit_list(habit_list, start_date, t_now) ==
    LET raising == { i \in 1..Len(habit_list) :
                       calc_analysis_info(habit_list[i], start_date, t_now).raised /= "" }
    IN  IF raising /= {}
        THEN [df |-> <<>>,
              raised |-> calc_analysis_info(habit_list[SetMin(raising)], start_date, t_now).raised]
        ELSE IF Len(habit_list) = 0 THEN [df |-> <<>>, raised |-> "ValueError"]
        ELSE [df |-> [i \in 1..Len(habit_list) |->
                         get_analysis_info_table_for_habit(habit_list[i], start_date, t_now)],
              raised |-> ""]

\* df[column].max()
SeriesMax(df, column) ==
    IF Len(df) = 0 THEN NaN
    ELSE df[CHOOSE i \in 1..Len(df) : \A j \in 1..Len(df) : df[j][column] <= df[i][column]][column]

\* df[column].min()
SeriesMin(df, column) ==
    IF Len(df) = 0 THEN NaN
    ELSE df[CHOOSE i \in 1..Len(df) : \A j \in 1..Len(df) : df[i][column] <= df[j][column]][column]

\* print_max_streak_info_for_habit_list that keeps the first habit with the maximum only.
print_max_streak_info_for_habit_list_FirstOnly(df) ==
    LET max_group_streak == SeriesMax(df, "max_streak")
        rows == SelectSeq(df, LAMBDA row : row.max_streak = max_group_streak)
    IN  [df |-> IF rows = <<>> THEN <<>> ELSE <<Head(rows)>>, value |-> max_group_streak,
         raised |-> ""]

\* print_max_streak_info_for_habit_list: the DataFrame it prints, the value it
\* returns and the exception that ends it ("": none).
print_max_streak_info_for_habit_list(df) ==
    LET max_group_streak == SeriesMax(df, "max_streak")
    IN  [df |-> SelectSeq(df, LAMBDA row : row.max_streak = max_group_streak),
         value |-> max_group_streak,
         raised |-> ""]

\* print_active_streak_info_for_habit_list
print_active_streak_info_for_habit_list(df) ==
    LET filtered == SelectSeq(df, LAMBDA row : row.active_streak > 0)
    IN  [df |-> filtered, value |-> Len(filtered), raised |-> ""]

\* print_min_success_rate_info_for_habit_list that selects the rates up to the
\* next hundredth as well.
print_min_success_rate_info_for_habit_list_Near(df) ==
    LET min_group_success_rate == SeriesMin(df, "success_rate")
    IN  [df |-> SelectSeq(df, LAMBDA row : row.success_rate <= min_group_success_rate + 1),
         value |-> min_group_success_rate,
         raised |-> ""]

\* print_min_success_rate_info_for_habit_list
print_min_success_rate_info_for_habit_list(df) ==
    LET min_group_success_rate == SeriesMin(df, "success_rate")
    IN  [df |-> SelectSeq(df, LAMBDA row : row.success_rate = min_group_success_rate),
         value |-> min_group_success_rate,
         raised |-> ""]

----------------------------------------------------------------------------
(* The analysis of the example habits: habit is the habit_list at hand,    *)
(* the clock starts at the frozen time of the tests.                       *)

ExampleHabits == { example_habit_list[i] : i \in 1..Len(example_habit_list) }

\* The habit lists: every list of up to MaxBatch different example habits, in
\* every order, and the two lists of the tests.
HabitLists ==
    { l \in UNION { [1..n -> ExampleHabits] : n \in 0..MaxBatch } :
          \A i, j \in 1..Len(l) : i /= j => l[i] /= l[j] }
        \cup {example_habit_list, shorter_habit_list}

InitExample ==
    /\ habit \in HabitLists
    /\ now = FrozenNow
    /\ pc = "idle"
    /\ arg = <<>>
    /\ frame = <<>>
    /\ user = NoUser
    /\ db = NoDatabase

\* A day passes.
TickExample ==
    /\ pc = "idle"
    /\ now < FrozenNow + MaxDaysLater * TicksPerDay
    /\ now' = now + TicksPerDay
    /\ UNCHANGED <<habit, pc, arg, frame>>
    /\ UNCHANGED <<user, db>>

\* get_period_checkoff_dict(habit, start_date) for a habit of the list
GetPeriodCheckoffDictExample ==
    /\ pc = "idle"
    /\ \E i \in 1..Len(habit), start_date \in ExampleStartDates :
          /\ arg' = <<habit[i], start_date>>
          /\ frame' = [start_date |-> prepare_analysis_start_date(habit[i], start_date),
                        period_checkoff_dict |-> get_period_checkoff_dict(habit[i], start_date)]
    /\ pc' = "get_period_checkoff_dict"
    /\ UNCHANGED <<now, habit>>
    /\ UNCHANGED <<user, db>>

\* calc_analysis_info(habit, start_date) for a habit of the list
CalcAnalysisInfoExample ==
    /\ pc = "idle"
    /\ \E i \in 1..Len(habit), start_date \in ExampleStartDates :
          /\ arg' = <<habit[i], start_date>>
          /\ frame' = calc_analysis_info(habit[i], start_date, now)
    /\ pc' = "calc_analysis_info"
    /\ UNCHANGED <<now, habit>>
    /\ UNCHANGED <<user, db>>

\* get_analysis_info_table_for_habit_list(habit_list)
GetAnalysisInfoTableForHabitList ==
    /\ pc = "idle"
    /\ arg' = <<habit>>
    /\ frame' = get_analysis_info_table_for_habit_list(habit, DefaultStartDate, now)
    /\ pc' = "get_analysis_info_table_for_habit_list"
    /\ UNCHANGED <<now, habit>>
    /\ UNCHANGED <<user, db>>

\* The DataFrames a reduction is called with: the one
\* get_analysis_info_table_for_habit_list has just returned, or, for a
\* habit_list without habits, one without rows.
DataFrames ==
    IF pc = "get_analysis_info_table_for_habit_list" /\ frame.raised = "" THEN {frame.df}
    ELSE IF pc = "idle" /\ Len(habit) = 0 THEN {EmptyDataFrame}
    ELSE {}

\* print_max_streak_info_for_habit_list(df)
PrintMaxStreakInfoForHabitList ==
    /\ \E df \in DataFrames :
          /\ arg' = <<df>>
          /\ frame' = print_max_streak_info_for_habit_list(df)
    /\ pc' = "print_max_streak_info_for_habit_list"
    /\ UNCHANGED <<now, habit>>
    /\ UNCHANGED <<user, db>>

\* print_active_streak_info_for_habit_list(df)
PrintActiveStreakInfoForHabitList ==
    /\ \E df \in DataFrames :
          /\ arg' = <<df>>
          /\ frame' = print_active_streak_info_for_habit_list(df)
    /\ pc' = "print_active_streak_info_for_habit_list"
    /\ UNCHANGED <<now, habit>>
    /\ UNCHANGED <<user, db>>

\* print_min_success_rate_info_for_habit_list(df)
PrintMinSuccessRateInfoForHabitList ==
    /\ \E df \in DataFrames :
          /\ arg' = <<df>>
          /\ frame' = print_min_success_rate_info_for_habit_list(df)
    /\ pc' = "print_min_success_rate_info_for_habit_list"
    /\ UNCHANGED <<now, habit>>
    /\ UNCHANGED <<user, db>>

NextExample ==
    \/ TickExample
    \/ GetPeriodCheckoffDictExample
    \/ CalcAnalysisInfoExample
    \/ GetAnalysisInfoTableForHabitList
    \/ PrintMaxStreakInfoForHabitList
    \/ PrintActiveStreakInfoForHabitList
    \/ PrintMinSuccessRateInfoForHabitList
    \/ Return

SpecExample == InitExample /\ [][NextExample]_vars

----------------------------------------------------------------------------
(* The worked examples of the weekly habit                                 *)

\* The call at hand analyses h from the requested start_date at the frozen time.
ExampleCall(f, h, start_date) ==
    /\ Returned(f)
    /\ arg = <<h, start_date>>
    /\ now = FrozenNow

\* C11: the weekly habit created on 2023-12-01 with one required checkoff and
\* the checkoffs of 2023-12-06, 12-14, 12-22, 2024-01-14, 01-18 and 01-24,
\* analysed from the default start at 2024-01-30 19:00, has max_streak 2,
\* active_streak 2 and success_rate 0.56 (5 successful periods of 9).
C11_WeeklyDefaultStart ==
    ExampleCall("calc_analysis_info", habit_weekly, DefaultStartDate)
        => Result = [max_streak |-> 2, active_streak |-> 2, success_rate |-> 56]

C11_Witness ==
    /\ ExampleCall("calc_analysis_info", habit_weekly, DefaultStartDate)
    /\ frame.raised = ""
    /\ frame.start_date = datetime(2023, 12, 1, 0, 0)
    /\ frame.nr_of_periods = <<9>>
    /\ frame.loop[1].nr_of_success_periods = 5

\* C12: the same habit analysed from 2023-12-07 has the checkoff dict
\* {1: 1, 2: 1, 5: 1, 6: 2} and the result max_streak 2, active_streak 2,
\* success_rate 0.5 (4 successful periods of 8).
C12_WeeklyStartDec7 ==
    /\ ExampleCall("get_period_checkoff_dict", habit_weekly, datetime(2023, 12, 7, 0, 0))
           => frame.period_checkoff_dict = [k \in {1, 2, 5, 6} |-> IF k = 6 THEN 2 ELSE 1]
    /\ ExampleCall("calc_analysis_info", habit_weekly, datetime(2023, 12, 7, 0, 0))
           => /\ frame.period_checkoff_dict = [k \in {1, 2, 5, 6} |-> IF k = 6 THEN 2 ELSE 1]
              /\ Result = [max_streak |-> 2, active_streak |-> 2, success_rate |-> 50]

C12_Witness ==
    /\ ExampleCall("calc_analysis_info", habit_weekly, datetime(2023, 12, 7, 0, 0))
    /\ frame.raised = ""
    /\ frame.start_date = datetime(2023, 12, 7, 0, 0)
    /\ frame.nr_of_periods = <<8>>
    /\ frame.loop[1].nr_of_success_periods = 4

----------------------------------------------------------------------------
(* The reductions over a batch                                             *)

\* The values of a column of a DataFrame.
Column(df, column) == { df[i][column] : i \in 1..Len(df) }

\* The names of the habits of the rows of a DataFrame.
Names(df) == Column(df, "habit_name")

\* The rows of selected are rows of df, in the order of df.
IsSubFrame(selected, df) ==
    \E f \in [1..Len(selected) -> 1..Len(df)] :
        /\ \A i \in 1..Len(selected) : selected[i] = df[f[i]]
        /\ \A i, j \in 1..Len(selected) : i < j => f[i] < f[j]

\* max_streak of the habit on its own, from the default start.
MaxStreakOf(h) == calc_analysis_info(h, DefaultStartDate, now).analysis_info_dict.max_streak

SuccessRateOf(h) == calc_analysis_info(h, DefaultStartDate, now).analysis_info_dict.success_rate

\* C14: for a non-empty batch print_min_success_rate_info_for_habit_list
\* returns the smallest success_rate of the batch and selects exactly the habits
\* that have it; for the example habits it returns 0.27 (11 of 41), and for the
\* list without the habit of the lowest rate the next lowest, 0.4 (2 of 5).
C14_MinSuccessRateReduction ==
    (Returned("print_min_success_rate_info_for_habit_list") /\ Len(arg[1]) > 0)
        => /\ \E i \in 1..Len(habit) : frame.value = SuccessRateOf(habit[i])
           /\ \A i \in 1..Len(habit) : frame.value <= SuccessRateOf(habit[i])
           /\ IsSubFrame(frame.df, arg[1])
           /\ Names(frame.df)
                  = { habit[i].habit_name : i \in { j \in 1..Len(habit) :
                                                      SuccessRateOf(habit[j]) = frame.value } }
           /\ (habit = example_habit_list /\ now = FrozenNow)
                  => /\ frame.value = 27
                     /\ Names(frame.df) = {habit_daily2.habit_name}
           /\ (habit = shorter_habit_list /\ now = FrozenNow)
                  => /\ frame.value = 40
                     /\ Names(frame.df) = {habit_biweekly.habit_name}

\* Two habits of the list share the lowest success_rate and both are selected.
C14_Witness ==
    /\ Returned("print_min_success_rate_info_for_habit_list")
    /\ Len(arg[1]) > 1
    /\ Len(frame.df) = 2
    /\ frame.df[1].success_rate = frame.df[2].success_rate
    /\ frame.df[1].habit_name /= frame.df[2].habit_name
    /\ frame.value > 0

\* The analysis columns of a row.
Info(row) == [max_streak    |-> row.max_streak,
              active_streak |-> row.active_streak,
              success_rate  |-> row.success_rate]

\* What the tests expect of each example habit on its own at the frozen time.
ExpectedInfo(h) ==
    IF h = habit_monthly THEN [max_streak |-> 1, active_streak |-> 1, success_rate |-> 67]
    ELSE IF h = habit_biweekly THEN [max_streak |-> 1, active_streak |-> 0, success_rate |-> 40]
    ELSE IF h = habit_daily THEN [max_streak |-> 6, active_streak |-> 3, success_rate |-> 60]
    ELSE IF h = habit_daily2 THEN [max_streak |-> 3, active_streak |-> 0, success_rate |-> 27]
    ELSE [max_streak |-> 2, active_streak |-> 2, success_rate |-> 56]

\* C15: get_analysis_info_table_for_habit_list returns one row per habit, in the
\* order of the list, and row i holds the attributes of habit i and what
\* calc_analysis_info returns for habit i alone, whatever the other habits of
\* the list and their order.
C15_TableRowPerHabitInOrder ==
    (Returned("get_analysis_info_table_for_habit_list") /\ Len(arg[1]) > 0)
        => /\ frame.raised = ""
           /\ Len(frame.df) = Len(arg[1])
           /\ \A i \in 1..Len(arg[1]) :
                 /\ frame.df[i].habit_name = arg[1][i].habit_name
                 /\ frame.df[i].create_datetime = arg[1][i].create_datetime
                 /\ Info(frame.df[i])
                        = calc_analysis_info(arg[1][i], DefaultStartDate, now).analysis_info_dict
                 /\ now = FrozenNow => Info(frame.df[i]) = ExpectedInfo(arg[1][i])

\* A list in another order than the example list: the weekly habit first.
C15_Witness ==
    /\ Returned("get_analysis_info_table_for_habit_list")
    /\ now = FrozenNow
    /\ arg[1] = <<habit_weekly, habit_monthly>>
    /\ Len(frame.df) = 2
    /\ frame.df[1].habit_name = "climb_weekly"
    /\ frame.df[1].max_streak = 2
    /\ frame.df[2].habit_name = "plan_monthly"
    /\ frame.df[2].max_streak = 1

----------------------------------------------------------------------------
(* The calls on one habit: every call of a method of the habit or of an    *)
(* analysis function is on record in pc, arg and frame when it returns.    *)

InitHabit ==
    /\ \E create_datetime \in CreateDatetimes :
          /\ habit = NewHabit("habit", "days", 1, 1, "", create_datetime)
          /\ now = create_datetime
    /\ pc = "idle"
    /\ arg = <<>>
    /\ frame = <<>>
    /\ user = NoUser
    /\ db = NoDatabase

\* habit.create_checkoff(checkoff), checkoff None or a timestamp
CreateCheckoffCall ==
    /\ pc = "idle"
    /\ Len(habit.checkoff_list) < MaxCheckoffs
    /\ \E checkoff \in {<<>>} \cup { <<t>> : t \in Timestamps(habit) } :
          /\ arg' = <<checkoff>>
          /\ habit' = [habit EXCEPT !.checkoff_list = create_checkoff(habit, checkoff, now)]
          /\ frame' = [printed |-> create_checkoff_printed(habit, checkoff, now)]
    /\ pc' = "create_checkoff"
    /\ UNCHANGED now
    /\ UNCHANGED <<user, db>>

\* habit.delete_checkoff(checkoff)
DeleteCheckoffCall ==
    /\ pc = "idle"
    /\ \E checkoff \in Timestamps(habit) :
          /\ arg' = <<checkoff>>
          /\ habit' = [habit EXCEPT !.checkoff_list = delete_checkoff(habit, checkoff)]
          /\ frame' = [printed |-> delete_checkoff_printed(habit, checkoff)]
    /\ pc' = "delete_checkoff"
    /\ UNCHANGED now
    /\ UNCHANGED <<user, db>>

\* The bounds given to list_checkoffs: the start of the second period and a time
\* of day in the third.
ListBounds(h) ==
    { Origin(h) + PeriodTimedelta(h), Origin(h) + 2 * PeriodTimedelta(h) + 1 }

\* list_checkoffs that filters the checkoff_list of the habit in place.
ListCheckoffs_InPlace ==
    /\ pc = "idle"
    /\ \E start, end \in {<<>>} \cup { <<t>> : t \in ListBounds(habit) } :
          /\ arg' = <<start, end>>
          /\ frame' = [value |-> list_checkoffs(habit, start, end)]
          /\ habit' = [habit EXCEPT !.checkoff_list = list_checkoffs(habit, start, end)]
    /\ pc' = "list_checkoffs"
    /\ UNCHANGED now
    /\ UNCHANGED <<user, db>>

\* habit.list_checkoffs(start, end), each None or a timestamp
ListCheckoffs ==
    /\ pc = "idle"
    /\ \E start, end \in {<<>>} \cup { <<t>> : t \in ListBounds(habit) } :
          /\ arg' = <<start, end>>
          /\ frame' = [value |-> list_checkoffs(habit, start, end)]
    /\ pc' = "list_checkoffs"
    /\ UNCHANGED <<now, habit>>
    /\ UNCHANGED <<user, db>>

NextHabit ==
    \/ Tick
    \/ CreateCheckoffCall
    \/ DeleteCheckoffCall
    \/ ListCheckoffs
    \/ GetPeriodCheckoffDict
    \/ CalcAnalysisInfo
    \/ Return

SpecHabit == InitHabit /\ [][NextHabit]_vars

\* C17: calc_analysis_info, get_period_checkoff_dict and Habit.list_checkoffs
\* leave the habit as it was: its attributes, its create_datetime and its
\* checkoff_list are the same after the call as before.
C17_AnalysisLeavesHabitUnchanged ==
    [][pc' \in {"calc_analysis_info", "get_period_checkoff_dict", "list_checkoffs"}
           => habit' = habit]_vars

\* list_checkoffs has returned some of the checkoffs and the habit has them all.
C17_Witness ==
    /\ Returned("list_checkoffs")
    /\ Len(frame.value) > 0
    /\ Len(frame.value) < Len(habit.checkoff_list)

\* The elements of a list.
Elements(list) == { list[i] : i \in 1..Len(list) }

\* C20: Habit.create_checkoff leaves checkoff_list as it was for a timestamp
\* that is already in the list, that is later than the current time, or that is
\* earlier than create_datetime; every other timestamp, the creation time and
\* the current time included, is added to the list.
C20_CreateCheckoffRejectsOrAdds ==
    [][pc' = "create_checkoff"
           => LET checkoff == IF arg'[1] = <<>> THEN now ELSE arg'[1][1]
              IN  IF \/ checkoff \in Elements(habit.checkoff_list)
                     \/ checkoff > now
                     \/ checkoff < habit.create_datetime
                  THEN habit' = habit
                  ELSE /\ Elements(habit'.checkoff_list)
                              = Elements(habit.checkoff_list) \cup {checkoff}
                       /\ Len(habit'.checkoff_list) = Len(habit.checkoff_list) + 1
                       /\ habit' = [habit EXCEPT !.checkoff_list = habit'.checkoff_list]]_vars

\* A checkoff at the creation time has been added to a list that holds a later
\* one, with the clock later still.
C20_Witness ==
    /\ Returned("create_checkoff")
    /\ frame.printed = "successfully created"
    /\ arg[1] = <<habit.create_datetime>>
    /\ Len(habit.checkoff_list) = 2
    /\ habit.checkoff_list[1] = habit.create_datetime
    /\ habit.create_datetime < habit.checkoff_list[2]
    /\ habit.checkoff_list[2] < now

----------------------------------------------------------------------------
(* Habits with any period_length and required_checkoffs: Habit.__init__    *)
(* takes the integers it is given.                                         *)

\* The values of period_length and of required_checkoffs.
ConfigValues == (0 - 1)..1

\* The requested start dates: the default and the day after the creation day.
ConfigStartDates(h) == { DefaultStartDate, Origin(h) + TicksPerDay }

InitConfig ==
    /\ \E period_length \in ConfigValues, required_checkoffs \in ConfigValues,
          create_datetime \in CreateDatetimes :
          /\ habit = NewHabit("habit", "days", period_length, required_checkoffs, "",
                              create_datetime)
          /\ now = create_datetime
    /\ pc = "idle"
    /\ arg = <<>>
    /\ frame = <<>>
    /\ user = NoUser
    /\ db = NoDatabase

\* Time passes, up to MaxPeriods days after the creation day.
TickConfig ==
    /\ pc = "idle"
    /\ now < Origin(habit) + MaxPeriods * TicksPerDay
    /\ now' = now + 1
    /\ UNCHANGED <<habit, pc, arg, frame>>
    /\ UNCHANGED <<user, db>>

\* habit.create_checkoff(): a checkoff at the current time
CreateCheckoffConfig ==
    /\ pc = "idle"
    /\ Len(habit.checkoff_list) < MaxCheckoffs
    /\ habit' = [habit EXCEPT !.checkoff_list = create_checkoff(habit, <<>>, now)]
    /\ UNCHANGED <<now, pc, arg, frame>>
    /\ UNCHANGED <<user, db>>

\* calc_analysis_info(habit, start_date)
CalcAnalysisInfoConfig ==
    /\ pc = "idle"
    /\ \E start_date \in ConfigStartDates(habit) :
          /\ arg' = <<start_date>>
          /\ frame' = calc_analysis_info(habit, start_date, now)
    /\ pc' = "calc_analysis_info"
    /\ UNCHANGED <<now, habit>>
    /\ UNCHANGED <<user, db>>

NextConfig ==
    \/ TickConfig
    \/ CreateCheckoffConfig
    \/ CalcAnalysisInfoConfig
    \/ Return

SpecConfig == InitConfig /\ [][NextConfig]_vars

\* The habit has a period_length or a required_checkoffs that is not positive.
InvalidConfiguration ==
    habit.period_length <= 0 \/ habit.required_checkoffs <= 0

\* C18: the analysis of a habit with a non-positive period_length or
\* required_checkoffs fails with InvalidConfiguration: it neither returns a
\* result nor fails with a division by zero.
C18_InvalidConfigurationFailsFast ==
    (Returned("calc_analysis_info") /\ InvalidConfiguration)
        => frame.raised = "InvalidConfiguration"

\* What the code does with such a habit: the call ends with ZeroDivisionError,
\* or returns a result.
C18_ZeroDivision ==
    /\ Returned("calc_analysis_info")
    /\ habit.period_length = 0
    /\ frame.raised = "ZeroDivisionError"

C18_ResultReturned ==
    /\ Returned("calc_analysis_info")
    /\ habit.period_length > 0
    /\ habit.required_checkoffs <= 0
    /\ frame.raised = ""
    /\ frame.nr_of_periods /= <<>>
    /\ Result.success_rate > 0

C18_NegativeLength ==
    /\ Returned("calc_analysis_info")
    /\ habit.period_length < 0
    /\ habit.required_checkoffs > 0
    /\ frame.nr_of_periods /= <<>>

----------------------------------------------------------------------------
(* The empty batch                                                         *)

\* C19: called with an empty batch, get_analysis_info_table_for_habit_list and
\* each of the three reductions fail with EmptyInput; none returns a value.
C19_EmptyBatchFailsWithEmptyInput ==
    (/\ pc \in {"get_analysis_info_table_for_habit_list",
                "print_max_streak_info_for_habit_list",
                "print_active_streak_info_for_habit_list",
                "print_min_success_rate_info_for_habit_list"}
     /\ Len(arg[1]) = 0)
        => frame.raised = "EmptyInput"

\* What the code does with an empty habit_list: df_concat raises ValueError.
C19_EmptyListValueError ==
    /\ Returned("get_analysis_info_table_for_habit_list")
    /\ arg[1] = <<>>
    /\ frame.raised = "ValueError"

\* What the code does with a DataFrame without rows: the reductions return NaN
\* as the maximum and the minimum, and 0 as the number of active streaks.
C19_EmptyFrameValueReturned ==
    /\ arg = <<EmptyDataFrame>>
    /\ frame.raised = ""
    /\ \/ Returned("print_max_streak_info_for_habit_list") /\ frame.value = NaN
       \/ Returned("print_min_success_rate_info_for_habit_list") /\ frame.value = NaN
       \/ Returned("print_active_streak_info_for_habit_list") /\ frame.value = 0

----------------------------------------------------------------------------
(* The checkoff_list of a habit                                            *)

\* C21: after any create_checkoff and delete_checkoff calls on a habit created
\* without checkoffs, with a clock that never goes back, checkoff_list is
\* strictly ascending, every checkoff is at or after create_datetime and not
\* later than the current time, and delete_checkoff of a timestamp that is not
\* in the list leaves the list as it was.
C21_CheckoffListAscendingInRange ==
    /\ [](/\ \A i, j \in 1..Len(habit.checkoff_list) :
                i < j => habit.checkoff_list[i] < habit.checkoff_list[j]
          /\ \A i \in 1..Len(habit.checkoff_list) :
                /\ habit.create_datetime <= habit.checkoff_list[i]
                /\ habit.checkoff_list[i] <= now)
    /\ [][(pc' = "delete_checkoff" /\ arg'[1] \notin Elements(habit.checkoff_list))
              => habit'.checkoff_list = habit.checkoff_list]_vars

\* A checkoff earlier than the two of the list has just been added in front of
\* them, and the clock is later than all three.
C21_Witness ==
    /\ Returned("create_checkoff")
    /\ frame.printed = "successfully created"
    /\ Len(habit.checkoff_list) = 3
    /\ arg[1] = <<habit.checkoff_list[1]>>
    /\ habit.create_datetime < habit.checkoff_list[1]
    /\ habit.checkoff_list[3] < now

----------------------------------------------------------------------------
(* The scan of calc_analysis_info over the sorted keys of the dict         *)

\* calc_analysis_info has returned after the scan.
Scanned == Returned("calc_analysis_info") /\ frame.loop /= <<>>

\* The temporary variables before and after the iteration for period_index.
BeforeIteration(period_index) ==
    Loop(LoopInit,
         SortedKeys({ k \in DOMAIN frame.period_checkoff_dict : k < period_index }),
         frame.period_checkoff_dict, habit.required_checkoffs, frame.last_period[1])

AfterIteration(period_index) ==
    LoopBody(BeforeIteration(period_index), period_index, frame.period_checkoff_dict,
             habit.required_checkoffs, frame.last_period[1])

\* The iterations that close a streak: the streak is open after the count of
\* the period and current_streak is 0 after the iteration.
Closings ==
    { k \in DOMAIN frame.period_checkoff_dict :
        /\ \/ BeforeIteration(k).current_streak > 0
           \/ frame.period_checkoff_dict[k] >= habit.required_checkoffs
        /\ AfterIteration(k).current_streak = 0 }

\* The iterations that assign active_streak.
ActiveAssignments == { k \in Closings : frame.last_period[1] - k <= 1 }

\* The last key of the scan and the length of the run of successful keys that
\* ends with it (0 when the last key is not successful).
LastKey == SetMax(DOMAIN frame.period_checkoff_dict)

KeySuccessful(k) ==
    /\ k \in DOMAIN frame.period_checkoff_dict
    /\ frame.period_checkoff_dict[k] >= habit.required_checkoffs

FinalRun ==
    Cardinality({ k \in DOMAIN frame.period_checkoff_dict :
                    \A j \in k..LastKey : KeySuccessful(j) })

\* C27: with required_checkoffs >= 1, when the scan ends current_streak is 0,
\* and the run that ends at the last visited key has been compared with
\* max_streak and, when it passes the activity test, is the active streak.
C27_StreakClosedAtEndOfScan ==
    (Scanned /\ habit.required_checkoffs >= 1)
        => /\ frame.loop[1].current_streak = 0
           /\ frame.loop[1].max_streak >= FinalRun
           /\ (FinalRun > 0 /\ frame.last_period[1] - LastKey <= 1)
                  => frame.loop[1].active_streak = FinalRun

\* The scan ended inside a run of two periods, the longest and the active one.
C27_Witness ==
    /\ Scanned
    /\ FinalRun = 2
    /\ Cardinality(DOMAIN frame.period_checkoff_dict) = 2
    /\ frame.loop[1].max_streak = 2
    /\ frame.loop[1].active_streak = 2

\* C28: for a habit whose checkoffs are all at or before the current time, at
\* most one iteration of the scan closes a streak that passes the activity test
\* last_period - period_index <= 1: active_streak is assigned at most once.
C28_ActiveStreakAssignedAtMostOnce ==
    Scanned => Cardinality(ActiveAssignments) <= 1

\* Two streaks were closed and only the second one was active.
C28_Witness ==
    /\ Scanned
    /\ Cardinality(Closings) = 2
    /\ Cardinality(ActiveAssignments) = 1
    /\ Result.active_streak > 0

\* C29: for a habit with period_length >= 1 whose checkoffs were recorded by
\* create_checkoff, and every requested start date, one in the future included,
\* when calc_analysis_info reaches the division of the success rate last_period
\* is >= 0, so nr_of_periods >= 1 and there is no division by zero, and every
\* key of the dict is <= last_period.
C29_LastPeriodNonNegative ==
    Scanned
        => /\ frame.last_period[1] >= 0
           /\ frame.nr_of_periods[1] >= 1
           /\ frame.raised = ""
           /\ \A k \in DOMAIN frame.period_checkoff_dict : k <= frame.last_period[1]

\* The analysis starts later than the creation day, in the running period, and
\* the only period is the running one.
C29_Witness ==
    /\ Scanned
    /\ Requested > habit.create_datetime
    /\ frame.start_date > Origin(habit)
    /\ frame.last_period = <<0>>
    /\ frame.nr_of_periods = <<1>>
    /\ Result.success_rate = 100

\* C30: for a habit with required_checkoffs >= 1 whose checkoffs are all at or
\* before the current time, 0 <= active_streak <= max_streak <=
\* nr_of_success_periods <= last_period + 1, and max_streak is 0 exactly when
\* no period is successful.
C30_StreaksOrdered ==
    (Scanned /\ habit.required_checkoffs >= 1)
        => /\ 0 <= Result.active_streak
           /\ Result.active_streak <= Result.max_streak
           /\ Result.max_streak <= frame.loop[1].nr_of_success_periods
           /\ frame.loop[1].nr_of_success_periods <= frame.last_period[1] + 1
           /\ Result.max_streak = 0 <=> SuccessfulPeriods(habit, frame.start_date) = {}

\* An active streak shorter than the longest, which is shorter than the number
\* of successful periods, with an unsuccessful period as well.
C30_Witness ==
    /\ Scanned
    /\ Result.active_streak = 1
    /\ Result.max_streak = 2
    /\ frame.loop[1].nr_of_success_periods = 3
    /\ frame.last_period[1] + 1 > 3

----------------------------------------------------------------------------
(* The habits of the user: add_habit, delete_habit, edit_habit and         *)
(* create_checkoff on the habits of User.habit_list.                       *)

MaxHabits == 2

HabitNames == {"read", "run", "rest"}

\* The arguments given to edit_habit: none, the periodicity and the description
\* of the tests, and a period_length alone.
EditArguments ==
    { <<<<>>, <<>>, <<>>, <<>>>>,
      <<<<"weeks">>, <<2>>, <<3>>, <<>>>>,
      <<<<>>, <<>>, <<>>, <<"new description">>>>,
      <<<<>>, <<2>>, <<>>, <<>>>> }

\* habit_list with the habit at position i replaced.
WithHabit(habit_list, i, h) == [habit_list EXCEPT ![i] = h]

InitUser ==
    /\ habit = NewHabit("habit", "days", 1, 1, "", TicksPerDay)
    /\ now = TicksPerDay
    /\ pc = "idle"
    /\ arg = <<>>
    /\ frame = <<>>
    /\ user = NoUser
    /\ db = NoDatabase

\* Time passes: one tick.
TickUser ==
    /\ pc = "idle"
    /\ now = TicksPerDay
    /\ now' = now + 1
    /\ UNCHANGED <<habit, pc, arg, frame, user, db>>

\* User.add_habit(Habit(habit_name)): a new habit with the default attributes.
\* A list of MaxHabits habits is offered the names it holds only.
AddHabit ==
    /\ pc = "idle"
    /\ \E habit_name \in HabitNames :
          LET h == NewHabit(habit_name, "days", 1, 1, "", now)
          IN  /\ \/ Len(user.habit_list) < MaxHabits
                 \/ /\ Len(user.habit_list) = MaxHabits
                    /\ habit_exists(user.habit_list, habit_name)
              /\ arg' = <<h>>
              /\ frame' = [printed |-> add_habit_printed(user.habit_list, h)]
              /\ user' = [user EXCEPT !.habit_list = add_habit(user.habit_list, h)]
    /\ pc' = "add_habit"
    /\ UNCHANGED <<now, habit, db>>

\* User.delete_habit(habit_name)
DeleteHabit ==
    /\ pc = "idle"
    /\ \E habit_name \in HabitNames :
          /\ arg' = <<habit_name>>
          /\ frame' = [printed |-> delete_habit_printed(user.habit_list, habit_name)]
          /\ user' = [user EXCEPT !.habit_list = delete_habit(user.habit_list, habit_name)]
    /\ pc' = "delete_habit"
    /\ UNCHANGED <<now, habit, db>>

\* habit.edit_habit(...) for the habit at position i of User.habit_list
EditHabit ==
    /\ pc = "idle"
    /\ \E i \in 1..Len(user.habit_list), e \in EditArguments :
          /\ arg' = <<i, e[1], e[2], e[3], e[4]>>
          /\ user' = [user EXCEPT !.habit_list =
                         WithHabit(@, i, edit_habit(@[i], e[1], e[2], e[3], e[4]))]
    /\ pc' = "edit_habit"
    /\ frame' = [value |-> <<>>]
    /\ UNCHANGED <<now, habit, db>>

\* habit.create_checkoff() for the habit at position i of User.habit_list
CreateCheckoffUser ==
    /\ pc = "idle"
    /\ \E i \in 1..Len(user.habit_list) :
          /\ Len(user.habit_list[i].checkoff_list) < MaxCheckoffs
          /\ user' = [user EXCEPT !.habit_list[i].checkoff_list =
                         create_checkoff(user.habit_list[i], <<>>, now)]
    /\ UNCHANGED <<now, habit, pc, arg, frame, db>>

NextUser ==
    \/ TickUser
    \/ AddHabit
    \/ DeleteHabit
    \/ EditHabit
    \/ CreateCheckoffUser
    \/ Return

SpecUser == InitUser /\ [][NextUser]_vars

\* The value an optional argument gives an attribute.
Given(argument, previous) == IF argument = <<>> THEN previous ELSE argument[1]

\* C22: edit_habit changes exactly the attributes among period_unit,
\* period_length, required_checkoffs and habit_description that are given with
\* a value; an attribute that is not given, and always habit_name,
\* create_datetime and checkoff_list, keeps its value.
C22_EditHabitChangesGivenOnly ==
    [][pc' = "edit_habit"
           => LET before == user.habit_list[arg'[1]]
                  after == user'.habit_list[arg'[1]]
              IN  /\ after.period_unit = Given(arg'[2], before.period_unit)
                  /\ after.period_length = Given(arg'[3], before.period_length)
                  /\ after.required_checkoffs = Given(arg'[4], before.required_checkoffs)
                  /\ after.habit_description = Given(arg'[5], before.habit_description)
                  /\ after.habit_name = before.habit_name
                  /\ after.create_datetime = before.create_datetime
                  /\ after.checkoff_list = before.checkoff_list
                  /\ DOMAIN after = DOMAIN before]_vars

\* The periodicity of a habit with a description and a checkoff has been edited.
C22_Witness ==
    /\ Returned("edit_habit")
    /\ arg[2] = <<"weeks">> /\ arg[3] = <<2>> /\ arg[4] = <<3>> /\ arg[5] = <<>>
    /\ user.habit_list[arg[1]].period_unit = "weeks"
    /\ user.habit_list[arg[1]].required_checkoffs = 3
    /\ user.habit_list[arg[1]].habit_description = "new description"
    /\ Len(user.habit_list[arg[1]].checkoff_list) > 0

\* The names of the habits of User.habit_list.
HabitNamesOf(habit_list) == { habit_list[i].habit_name : i \in 1..Len(habit_list) }

\* C23: after any add_habit, delete_habit and edit_habit calls from an empty
\* habit_list no two habits of User.habit_list have the same habit_name;
\* add_habit with a name that exists and delete_habit with a name that does not
\* leave the list as it was, add_habit with a new name appends the habit at the
\* end, and delete_habit with a name that exists removes the habit with that
\* name and no other.
C23_HabitNamesUnique ==
    /\ [](\A i, j \in 1..Len(user.habit_list) :
              i /= j => user.habit_list[i].habit_name /= user.habit_list[j].habit_name)
    /\ [][/\ pc' = "add_habit"
             => IF arg'[1].habit_name \in HabitNamesOf(user.habit_list)
                THEN user'.habit_list = user.habit_list
                ELSE user'.habit_list = user.habit_list \o <<arg'[1]>>
          /\ pc' = "delete_habit"
             => IF arg'[1] \notin HabitNamesOf(user.habit_list)
                THEN user'.habit_list = user.habit_list
                ELSE user'.habit_list
                         = SelectSeq(user.habit_list, LAMBDA h : h.habit_name /= arg'[1])]_vars

\* add_habit has turned down a second habit with the name of an edited habit
\* of the list, which holds another habit as well.
C23_Witness ==
    /\ Returned("add_habit")
    /\ frame.printed = "This habit already exists!"
    /\ Len(user.habit_list) = 2
    /\ arg[1].habit_name = user.habit_list[1].habit_name
    /\ arg[1] /= user.habit_list[1]
    /\ user.habit_list[1].period_unit = "weeks"

----------------------------------------------------------------------------
(* DBConnector (tracking_classes.py): the sqlite3 database habit.db         *)

\* The clock of the database specification has TicksPerMinute ticks in a
\* minute: a datetime may lie between two minutes.
TicksPerMinute == 2

\* datetime.strftime('%Y-%m-%d %H:%M'): the text names the minute; seconds and
\* microseconds are not written.
strftime(t) == [minute |-> t \div TicksPerMinute]

\* helpers.convert_to_datetime of a text written by strftime: the format
\* '%Y-%m-%d %H:%M' matches and gives the datetime at second 0 of the minute.
convert_to_datetime(timestamp) == timestamp.minute * TicksPerMinute

\* datetime.replace(second=0, microsecond=0)
replace_second_0(t) == (t \div TicksPerMinute) * TicksPerMinute

\* hashlib.sha256(password.encode()).hexdigest(): a text that is not the
\* password; two passwords of the model never have the same digest.
sha256(password) == <<"sha256", password>>

\* register_user that replaces the password of a user that exists.
register_user_Overwrites(u, d, user_name, password) ==
    [value |-> TRUE,
     user  |-> [u EXCEPT !.user_name = user_name],
     db    |-> [d EXCEPT !.User = DictPut(@, user_name, sha256(password))]]

\* DBConnector.register_user: the value returned, the class User and the
\* database after the call.  The INSERT of a user_name that is in the table
\* raises sqlite3.IntegrityError (primary key), which the method catches.
register_user(u, d, user_name, password) ==
    IF user_name \in DOMAIN d.User
    THEN [value |-> FALSE, user |-> u, db |-> d]
    ELSE [value |-> TRUE,
          user  |-> [u EXCEPT !.user_name = user_name],
          db    |-> [d EXCEPT !.User = DictPut(@, user_name, sha256(password))]]

\* DBConnector.verify_user: a row with the name and the digest exists.
verify_user(d, user_name, password) ==
    /\ user_name \in DOMAIN d.User
    /\ d.User[user_name] = sha256(password)

\* SELECT * FROM Habit WHERE user_name = ?
SelectHabit(d, user_name) == {row \in d.Habit : row.user_name = user_name}

\* SELECT * FROM Checkoff where user_name = ? and habit_name = ?
SelectCheckoff(d, user_name, habit_name) ==
    {row \in d.Checkoff : row.user_name = user_name /\ row.habit_name = habit_name}

\* fetchall(): the rows selected, in an order the statement does not fix.
Fetchall(rows) ==
    {s \in [1..Cardinality(rows) -> rows] : \A row \in rows : \E i \in DOMAIN s : s[i] = row}

\* The rows of a select in the order of their minutes.
RECURSIVE ByMinute(_)
ByMinute(rows) ==
    IF rows = {} THEN <<>>
    ELSE LET first == CHOOSE row \in rows :
                          \A other \in rows : row.checkoff.minute <= other.checkoff.minute
         IN  <<first>> \o ByMinute(rows \ {first})

\* unload_data, first loop: a Habit for every row, added with User.add_habit.
RECURSIVE RecreateHabits(_, _)
RecreateHabits(habit_list, db_habits) ==
    IF db_habits = <<>> THEN habit_list
    ELSE LET row == Head(db_habits)
             h == NewHabit(row.habit_name, row.period_unit, row.period_length,
                           row.required_checkoffs, row.habit_description,
                           convert_to_datetime(row.create_datetime))
         IN  RecreateHabits(add_habit(habit_list, h), Tail(db_habits))

\* unload_data, inner loop: create_checkoff for every row of the habit.
RECURSIVE RecreateCheckoffs(_, _, _)
RecreateCheckoffs(h, db_checkoffs, t_now) ==
    IF db_checkoffs = <<>> THEN h
    ELSE LET checkoff == convert_to_datetime(Head(db_checkoffs).checkoff)
         IN  RecreateCheckoffs([h EXCEPT !.checkoff_list = create_checkoff(h, <<checkoff>>, t_now)],
                               Tail(db_checkoffs), t_now)

\* DBConnector.unload_data: the class User after the call; db_habits is what
\* fetchall gave for the rows of the user in the table Habit.  The checkoffs
\* are recreated for every habit of the list, those it held before included;
\* create_checkoff sorts, so the order of the Checkoff rows does not show.
unload_data(u, d, t_now, db_habits) ==
    IF Len(db_habits) = 0 THEN u
    ELSE LET recreated == RecreateHabits(u.habit_list, db_habits)
         IN  [u EXCEPT !.habit_list =
                 [i \in 1..Len(recreated) |->
                     RecreateCheckoffs(recreated[i],
                                       ByMinute(SelectCheckoff(d, u.user_name, recreated[i].habit_name)),
                                       t_now)]]

\* DBConnector.login_user: the value returned and the class User after it.
login_user(u, d, user_name, password, t_now, db_habits) ==
    IF verify_user(d, user_name, password)
    THEN [value |-> TRUE,
          user  |-> unload_data([u EXCEPT !.user_name = user_name], d, t_now, db_habits)]
    ELSE [value |-> FALSE, user |-> u]

\* The row load_data inserts into the table Habit for a habit.
HabitRow(user_name, h) ==
    [user_name          |-> user_name,
     habit_name         |-> h.habit_name,
     period_unit        |-> h.period_unit,
     period_length      |-> h.period_length,
     required_checkoffs |-> h.required_checkoffs,
     habit_description  |-> h.habit_description,
     create_datetime    |-> strftime(h.create_datetime)]

\* The row load_data inserts into the table Checkoff for a checkoff.
CheckoffRow(user_name, h, checkoff) ==
    [user_name |-> user_name, habit_name |-> h.habit_name, checkoff |-> strftime(checkoff)]

\* load_data inserts two rows with one primary key: two habits of one name,
\* or two checkoffs of a habit in one minute.
load_data_raised(u) ==
    IF \/ \E i, j \in 1..Len(u.habit_list) :
              i /= j /\ u.habit_list[i].habit_name = u.habit_list[j].habit_name
       \/ \E i \in 1..Len(u.habit_list) :
              \E j, k \in 1..Len(u.habit_list[i].checkoff_list) :
                  /\ j /= k
                  /\ strftime(u.habit_list[i].checkoff_list[j])
                         = strftime(u.habit_list[i].checkoff_list[k])
    THEN <<"IntegrityError">>
    ELSE <<>>

\* DBConnector.load_data: the database after the call.  The rows of the user
\* are deleted and the habits and checkoffs of User.habit_list inserted; when
\* an INSERT raises, nothing is committed and the database stays as it was.
load_data(u, d) ==
    IF load_data_raised(u) /= <<>> THEN d
    ELSE [d EXCEPT
            !.Habit = {row \in @ : row.user_name /= u.user_name}
                      \cup {HabitRow(u.user_name, u.habit_list[i]) : i \in 1..Len(u.habit_list)},
            !.Checkoff = {row \in @ : row.user_name /= u.user_name}
                         \cup UNION {{CheckoffRow(u.user_name, u.habit_list[i], u.habit_list[i].checkoff_list[j]) :
                                         j \in 1..Len(u.habit_list[i].checkoff_list)} :
                                     i \in 1..Len(u.habit_list)}]

\* DBConnector.delete_user_data: the value returned and the database after it.
delete_user_data(d, user_name, password) ==
    IF ~verify_user(d, user_name, password) THEN [value |-> FALSE, db |-> d]
    ELSE [value |-> TRUE,
          db |-> [User     |-> [name \in DOMAIN d.User \ {user_name} |-> d.User[name]],
                  Habit    |-> {row \in d.Habit : row.user_name /= user_name},
                  Checkoff |-> {row \in d.Checkoff : row.user_name /= user_name}]]

----------------------------------------------------------------------------
(* Save and restore: register_user, verify_user, login_user, load_data and *)
(* delete_user_data on the database, between the calls that change the     *)
(* habits of the user, and the program ending and starting again.          *)

\* The clock runs through the minutes 1 .. MaxMinutes.
MaxMinutes == 1

UserNames == {"test_user", "empty_test_user"}

Passwords == {"password", "secret"}

\* The habits a user adds: the default habit and one with a periodicity and
\* a description of its own.
NewHabits(t_now) ==
    { NewHabit("read", "days", 1, 1, "", replace_second_0(t_now)),
      NewHabit("run", "weeks", 2, 3, "twice in two weeks", replace_second_0(t_now)) }

InitDB ==
    /\ habit = NewHabit("habit", "days", 1, 1, "", TicksPerMinute)
    /\ now = TicksPerMinute
    /\ pc = "idle"
    /\ arg = <<>>
    /\ frame = <<>>
    /\ user = NoUser
    /\ db = NoDatabase

\* Time passes: one tick.
TickDB ==
    /\ pc = "idle"
    /\ now + 1 < TicksPerMinute * (MaxMinutes + 1)
    /\ now' = now + 1
    /\ UNCHANGED <<habit, pc, arg, frame, user, db>>

\* DBConnector().register_user(user_name, password)
RegisterUser ==
    /\ pc = "idle"
    /\ \E user_name \in UserNames, password \in Passwords :
          LET result == register_user(user, db, user_name, password)
          IN  /\ arg' = <<user_name, password>>
              /\ frame' = [value |-> result.value]
              /\ user' = result.user
              /\ db' = result.db
    /\ pc' = "register_user"
    /\ UNCHANGED <<now, habit>>

\* DBConnector().verify_user(user_name, password)
VerifyUser ==
    /\ pc = "idle"
    /\ \E user_name \in UserNames, password \in Passwords :
          /\ arg' = <<user_name, password>>
          /\ frame' = [value |-> verify_user(db, user_name, password)]
    /\ pc' = "verify_user"
    /\ UNCHANGED <<now, habit, user, db>>

\* DBConnector().login_user(user_name, password)
LoginUser ==
    /\ pc = "idle"
    /\ \E user_name \in UserNames, password \in Passwords :
          \E db_habits \in Fetchall(SelectHabit(db, user_name)) :
              LET result == login_user(user, db, user_name, password, now, db_habits)
              IN  /\ arg' = <<user_name, password>>
                  /\ frame' = [value |-> result.value]
                  /\ user' = result.user
    /\ pc' = "login_user"
    /\ UNCHANGED <<now, habit, db>>

\* DBConnector().load_data(), which main.py calls for a user that is logged in
LoadData ==
    /\ pc = "idle"
    /\ user.user_name /= ""
    /\ arg' = <<>>
    /\ frame' = [raised |-> load_data_raised(user)]
    /\ db' = load_data(user, db)
    /\ pc' = "load_data"
    /\ UNCHANGED <<now, habit, user>>

\* DBConnector().delete_user_data(user_name, password)
DeleteUserData ==
    /\ pc = "idle"
    /\ \E user_name \in UserNames, password \in Passwords :
          LET result == delete_user_data(db, user_name, password)
          IN  /\ arg' = <<user_name, password>>
              /\ frame' = [value |-> result.value]
              /\ db' = result.db
    /\ pc' = "delete_user_data"
    /\ UNCHANGED <<now, habit, user>>

\* User.add_habit(Habit(...)) of a user that is logged in
AddHabitDB ==
    /\ pc = "idle"
    /\ user.user_name /= ""
    /\ Len(user.habit_list) < MaxHabits
    /\ \E h \in NewHabits(now) :
          user' = [user EXCEPT !.habit_list = add_habit(user.habit_list, h)]
    /\ UNCHANGED <<now, habit, pc, arg, frame, db>>

\* User.delete_habit(habit_name)
DeleteHabitDB ==
    /\ pc = "idle"
    /\ \E i \in 1..Len(user.habit_list) :
          user' = [user EXCEPT !.habit_list = delete_habit(@, user.habit_list[i].habit_name)]
    /\ UNCHANGED <<now, habit, pc, arg, frame, db>>

\* habit.create_checkoff(checkoff) for the habit at position i of the list
CreateCheckoffDB ==
    /\ pc = "idle"
    /\ \E i \in 1..Len(user.habit_list) :
          /\ Len(user.habit_list[i].checkoff_list) < MaxCheckoffs
          /\ \E checkoff \in user.habit_list[i].create_datetime..now :
                user' = [user EXCEPT !.habit_list[i].checkoff_list =
                            create_checkoff(user.habit_list[i], <<checkoff>>, now)]
    /\ UNCHANGED <<now, habit, pc, arg, frame, db>>

\* The program ends and is started again: the class User is as defined, the
\* database file is kept.
Restart ==
    /\ pc = "idle"
    /\ user /= NoUser
    /\ user' = NoUser
    /\ UNCHANGED <<now, habit, pc, arg, frame, db>>

NextDB ==
    \/ TickDB
    \/ RegisterUser
    \/ VerifyUser
    \/ LoginUser
    \/ LoadData
    \/ DeleteUserData
    \/ AddHabitDB
    \/ DeleteHabitDB
    \/ CreateCheckoffDB
    \/ Restart
    \/ Return

SpecDB == InitDB /\ [][NextDB]_vars

\* The calls on the credentials and on the rows of the users, without the
\* clock and the checkoffs.
NextCredentials ==
    \/ RegisterUser
    \/ VerifyUser
    \/ LoginUser
    \/ LoadData
    \/ DeleteUserData
    \/ AddHabitDB
    \/ Restart
    \/ Return

SpecCredentials == InitDB /\ [][NextCredentials]_vars

\* The habit lists login_user can rebuild, as sets of habits, for a user that
\* logs in with no habit in User.habit_list: one for every order of the rows.
Restored(d, user_name, t_now) ==
    { Elements(unload_data([user_name |-> user_name, habit_list |-> <<>>],
                           d, t_now, db_habits).habit_list) :
        db_habits \in Fetchall(SelectHabit(d, user_name)) }

\* The habits the rows of a user stand for: the attributes of a row of the
\* table Habit, with the datetimes of its rows of the table Checkoff.
Saved(d, user_name) ==
    { [habit_name         |-> row.habit_name,
       habit_description  |-> row.habit_description,
       period_unit        |-> row.period_unit,
       period_length      |-> row.period_length,
       required_checkoffs |-> row.required_checkoffs,
       create_datetime    |-> row.create_datetime.minute * TicksPerMinute,
       checkoff_list      |-> SortedKeys({r.checkoff.minute * TicksPerMinute :
                                             r \in SelectCheckoff(d, user_name, row.habit_name)})] :
        row \in SelectHabit(d, user_name) }

\* Every datetime of the habits is at second 0 of its minute.
WholeMinutes(habit_list) ==
    \A i \in 1..Len(habit_list) :
        /\ habit_list[i].create_datetime % TicksPerMinute = 0
        /\ \A j \in 1..Len(habit_list[i].checkoff_list) :
               habit_list[i].checkoff_list[j] % TicksPerMinute = 0

\* C24: saving and restoring is a round trip.  load_data ends without an
\* exception and leaves one row of the table Habit for every habit of the
\* user, the rows of no other user changed; a login_user of that user into an
\* empty habit_list then rebuilds the habits with the attributes,
\* create_datetime and checkoff_list they had when they were saved, and every
\* login_user into an empty habit_list rebuilds what the rows hold.
C24_SaveRestoreRoundTrip ==
    /\ [][pc' = "load_data"
            => /\ frame'.raised = <<>>
               /\ Cardinality(SelectHabit(db', user.user_name)) = Len(user.habit_list)
               /\ \A i \in 1..Len(user.habit_list) :
                      \E row \in SelectHabit(db', user.user_name) :
                          row.habit_name = user.habit_list[i].habit_name
               /\ \A name \in UserNames \ {user.user_name} :
                      /\ SelectHabit(db', name) = SelectHabit(db, name)
                      /\ \A h \in HabitNames :
                             SelectCheckoff(db', name, h) = SelectCheckoff(db, name, h)
               /\ Restored(db', user.user_name, now') = {Elements(user.habit_list)}]_vars
    /\ [][pc' = "login_user" /\ frame'.value /\ user.habit_list = <<>>
            => /\ user'.user_name = arg'[1]
               /\ Elements(user'.habit_list) = Saved(db, arg'[1])]_vars

\* load_data has saved a habit with a checkoff between two minutes: what a
\* login_user rebuilds from the rows is not the habit list that was saved.
C24_SecondsLost ==
    /\ Returned("load_data")
    /\ frame.raised = <<>>
    /\ Len(user.habit_list) = 2
    /\ ~WholeMinutes(user.habit_list)
    /\ Restored(db, user.user_name, now) /= {Elements(user.habit_list)}

\* load_data has ended with sqlite3.IntegrityError: two checkoffs of a habit
\* lie in one minute.  The rows saved before are still in the database.
C24_SameMinuteIntegrityError ==
    /\ Returned("load_data")
    /\ frame.raised = <<"IntegrityError">>
    /\ \E row \in db.Habit : row.user_name = user.user_name

\* With every datetime at second 0 of its minute the round trip holds: what a
\* login_user rebuilds from the rows load_data wrote is what was saved.
C24_WholeMinutesRoundTrip ==
    [][pc' = "load_data" /\ WholeMinutes(user.habit_list)
          => /\ frame'.raised = <<>>
             /\ Restored(db', user.user_name, now') = {Elements(user.habit_list)}]_vars

\* The credentials the table User accepts: the names with their passwords.
Credentials(d) ==
    {c \in UserNames \X Passwords : c[1] \in DOMAIN d.User /\ d.User[c[1]] = sha256(c[2])}

\* C25: register_user with a name that is registered returns False and leaves
\* the stored credentials and User.user_name as they were; with a new name it
\* returns True, sets User.user_name and stores the name with the password.
\* The stored credentials change in no other way than by that and by a
\* delete_user_data with credentials that verify, which removes them; every
\* verify_user returns True for the stored name with its password and False
\* for every other, a name that is not registered included.
C25_RegisterVerifyDelete ==
    /\ [](\A name \in DOMAIN db.User :
              Cardinality({c \in Credentials(db) : c[1] = name}) = 1)
    /\ [][/\ pc' = "register_user"
             => IF arg'[1] \in DOMAIN db.User
                THEN /\ frame'.value = FALSE
                     /\ db' = db
                     /\ user' = user
                ELSE /\ frame'.value = TRUE
                     /\ user'.user_name = arg'[1]
                     /\ Credentials(db') = Credentials(db) \cup {<<arg'[1], arg'[2]>>}
          /\ pc' = "verify_user"
             => frame'.value = (<<arg'[1], arg'[2]>> \in Credentials(db))
          /\ pc' = "delete_user_data"
             => IF <<arg'[1], arg'[2]>> \in Credentials(db)
                THEN /\ frame'.value = TRUE
                     /\ Credentials(db') = Credentials(db) \ {<<arg'[1], arg'[2]>>}
                     /\ arg'[1] \notin DOMAIN db'.User
                ELSE /\ frame'.value = FALSE
                     /\ db' = db
          /\ pc' \notin {"register_user", "delete_user_data"}
             => db'.User = db.User]_vars

\* register_user has turned down the name of a registered user, given with
\* another password, while another user is logged in; a verify_user with that
\* name before it would have returned True with the stored password only.
C25_Witness ==
    /\ Returned("register_user")
    /\ frame.value = FALSE
    /\ arg[1] \in DOMAIN db.User
    /\ <<arg[1], arg[2]>> \notin Credentials(db)
    /\ user.user_name \notin {"", arg[1]}
    /\ Cardinality(DOMAIN db.User) = 2

----------------------------------------------------------------------------
(* The interactive prompts for the periodicity (helpers_interactive.py,    *)
(* tracking_interactive.py): the text the user types is validated by       *)
(* questionary_validator_positive_integer and converted with int.          *)

\* The texts the user types have at most MaxInput characters.
MaxInput == 2

Characters == {"-", "0", "1", "a"}

Texts == UNION {[1..n -> Characters] : n \in 0..MaxInput}

period_units == {"days", "weeks", "months"}

Descriptions == {"", "new description"}

IsDigit(c) == c \in {"0", "1"}

\* The number a text of decimal digits stands for.
RECURSIVE DecimalValue(_)
DecimalValue(digits) ==
    IF digits = <<>> THEN 0
    ELSE 10 * DecimalValue(SubSeq(digits, 1, Len(digits) - 1))
         + (IF digits[Len(digits)] = "1" THEN 1 ELSE 0)

\* int(value) of a str: <<n>> for the integer n, <<>> for ValueError.  The
\* text is an optional sign and one or more digits; leading zeros are taken.
int(value) ==
    LET negative == Len(value) > 0 /\ value[1] = "-"
        digits   == IF negative THEN Tail(value) ELSE value
    IN  IF Len(digits) = 0 \/ \E i \in 1..Len(digits) : ~IsDigit(digits[i]) THEN <<>>
        ELSE <<IF negative THEN 0 - DecimalValue(digits) ELSE DecimalValue(digits)>>

\* helpers_interactive.questionary_validator_positive_integer
questionary_validator_positive_integer(value) ==
    IF int(value) = <<>> THEN FALSE
    ELSE int(value)[1] >= 0

InitInteractive ==
    /\ habit = NewHabit("habit", "days", 1, 1, "", TicksPerDay)
    /\ now = TicksPerDay
    /\ pc = "idle"
    /\ arg = <<>>
    /\ frame = <<>>
    /\ user = NoUser
    /\ db = NoDatabase

\* questionary calls the validator with the text of the prompt.
QuestionaryValidatorPositiveInteger ==
    /\ pc = "idle"
    /\ \E value \in Texts :
          /\ arg' = <<value>>
          /\ frame' = [value |-> questionary_validator_positive_integer(value)]
    /\ pc' = "questionary_validator_positive_integer"
    /\ UNCHANGED <<now, habit, user, db>>

\* add_habit_interactive: the prompt takes the texts the validator accepts,
\* the filter int converts them, and the habit is added with User.add_habit.
AddHabitInteractive ==
    /\ pc = "idle"
    /\ \E period_unit \in period_units, period_length \in Texts,
          required_checkoffs \in Texts, habit_description \in Descriptions :
          /\ questionary_validator_positive_integer(period_length)
          /\ questionary_validator_positive_integer(required_checkoffs)
          /\ arg' = [period_length |-> period_length, required_checkoffs |-> required_checkoffs]
          /\ user' = [user EXCEPT !.habit_list =
                         add_habit(@, NewHabit("read", period_unit, int(period_length)[1],
                                               int(required_checkoffs)[1], habit_description, now))]
    /\ pc' = "add_habit_interactive"
    /\ frame' = [value |-> <<>>]
    /\ UNCHANGED <<now, habit, db>>

\* edit_habit_interactive for the habit at position i: the periodicity, with
\* the texts the validator accepts, or the description.
EditHabitInteractive ==
    /\ pc = "idle"
    /\ \E i \in 1..Len(user.habit_list) :
          \/ \E period_unit \in period_units, period_length \in Texts, required_checkoffs \in Texts :
                /\ questionary_validator_positive_integer(period_length)
                /\ questionary_validator_positive_integer(required_checkoffs)
                /\ arg' = [period_length |-> period_length, required_checkoffs |-> required_checkoffs]
                /\ user' = [user EXCEPT !.habit_list =
                               WithHabit(@, i, edit_habit(@[i], <<period_unit>>, <<int(period_length)[1]>>,
                                                          <<int(required_checkoffs)[1]>>, <<>>))]
          \/ \E habit_description \in Descriptions :
                /\ arg' = [habit_description |-> habit_description]
                /\ user' = [user EXCEPT !.habit_list =
                               WithHabit(@, i, edit_habit(@[i], <<>>, <<>>, <<>>, <<habit_description>>))]
    /\ pc' = "edit_habit_interactive"
    /\ frame' = [value |-> <<>>]
    /\ UNCHANGED <<now, habit, db>>

NextInteractive ==
    \/ QuestionaryValidatorPositiveInteger
    \/ AddHabitInteractive
    \/ EditHabitInteractive
    \/ Return

SpecInteractive == InitInteractive /\ [][NextInteractive]_vars

\* The text is the decimal notation of an integer that is 1 or more.
IsPositiveInteger(value) ==
    /\ Len(value) > 0
    /\ \A i \in 1..Len(value) : IsDigit(value[i])
    /\ \E i \in 1..Len(value) : value[i] /= "0"

\* C26: questionary_validator_positive_integer returns True for a text that
\* is a positive integer and False for every other, and every habit created
\* or edited with add_habit_interactive and edit_habit_interactive has
\* period_length >= 1 and required_checkoffs >= 1.
C26_ValidatorAcceptsPositiveOnly ==
    /\ Returned("questionary_validator_positive_integer")
       => (frame.value <=> IsPositiveInteger(arg[1]))
    /\ \A i \in 1..Len(user.habit_list) :
           /\ user.habit_list[i].period_length >= 1
           /\ user.habit_list[i].required_checkoffs >= 1

\* add_habit_interactive has taken the text 0 for period_length and added a
\* habit with period_length 0.
C26_ZeroAccepted ==
    /\ Returned("add_habit_interactive")
    /\ arg.period_length = <<"0">>
    /\ Len(user.habit_list) = 1
    /\ user.habit_list[1].period_length = 0
    /\ user.habit_list[1].required_checkoffs >= 1

====
